---- MODULE Spec2Model ----
(***************************************************************************)
(* A model of sly's lexer (src/sly/lex.py): the class-body dictionary      *)
(* LexerMetaDict, the rule collection and build of a Lexer class, and the  *)
(* scanning loop of Lexer.tokenize; and of sly's parser: the grammar of a  *)
(* Parser class, its LALR(1) tables and the loop of Parser.parse.  The     *)
(* lexer is scanned under Spec, the parser is run under ParserSpec.        *)
(*                                                                         *)
(* Text is a sequence of one-character strings.  Positions are 0-based as  *)
(* in the source: text[index] of the source is CharAt(text, index).        *)
(* A regular expression is modelled by the subset the lexers of the        *)
(* repository use: an ordered alternation of concatenations of character   *)
(* classes, each taken once, one or more times, or zero or more times,     *)
(* matched with the greedy, backtracking, first-alternative-wins semantics *)
(* of Python's re module, and the lookahead assertion, which the re module *)
(* accepts in any pattern handed to it.                                    *)
(***************************************************************************)
EXTENDS Integers, Sequences, FiniteSets, TLC

VARIABLES cls, text, index, lineno, lex, self_text, self_index, self_lineno,
          pc, out, calls, last, raised

\* self.__state_stack, the stack of push_state and pop_state, and the calls of
\* begin, push_state and pop_state made so far: the name of each, the class of
\* the lexer when it was made, the class it left and the exception it raised.
VARIABLES state_stack, state_log

statevars == <<state_stack, state_log>>

\* The parser: its grammar and tables, the tokens handed to parse, and the
\* local state of parse.
VARIABLES grammar, table, toks, taken, statestack, symstack, lookahead,
          lookaheadstack, errorcount, errors, names, result, ppc, plast

\* Two iterators made by lexer.tokenize(...) on one lexer instance: the locals
\* of each generator, and the one that is running (0: neither).
VARIABLES gens, running

lexvars == <<cls, text, index, lineno, lex, self_text, self_index, self_lineno,
             pc, out, calls, last, raised, statevars>>

parvars == <<grammar, table, toks, taken, statestack, symstack, lookahead,
             lookaheadstack, errorcount, errors, names, result, ppc, plast>>

pairvars == <<gens, running>>

\* Class statements: the objects class attributes refer to (heap), the
\* attributes _ignored_tokens, _token_funcs, _remapping and _master_re of each
\* class that exists (classes), and the classes whose statement raised.
VARIABLES heap, classes, failed

buildvars == <<heap, classes, failed>>

vars == <<lexvars, parvars, pairvars, buildvars>>

\* Longest input text the model scans.
MaxLen == 3

\* Most calls of actions and of the error handler in one scan (it only binds
\* when a handler keeps returning without advancing).
MaxCalls == 5

\* Most tokens yielded in one scan (it only binds when a match keeps
\* consuming nothing).
MaxOut == MaxLen + MaxCalls

\* tokenize(self, text, lineno=1, index=0)
StartLineno == 1
StartIndex == 0

(***************************************************************************)
(* Regular expressions                                                     *)
(***************************************************************************)
One(S)  == [set |-> S, rep |-> "one"]
Plus(S) == [set |-> S, rep |-> "plus"]
Star(S) == [set |-> S, rep |-> "star"]

\* (?=[S]): the next character is one of S; nothing is consumed.
Ahead(S) == [set |-> S, rep |-> "ahead"]

\* The pattern that is a literal string.
Lit(s) == << [i \in 1..Len(s) |-> One({s[i]})] >>

\* A function without a pattern attribute (pattern is None).
NoPattern == << >>

CharAt(t, i) == t[i + 1]

InText(t, i) == i >= 0 /\ i < Len(t)

SetMax(S) == CHOOSE x \in S : \A y \in S : y <= x

\* The number of consecutive characters of S in t from position pos on.
RunLen(S, t, pos) ==
  LET stops == { j \in pos..Len(t) : j = Len(t) \/ CharAt(t, j) \notin S }
  IN  (CHOOSE j \in stops : \A k \in stops : j <= k) - pos

\* The end of the match of atoms[k..] at pos, or -1: each quantifier takes the
\* most repetitions with which the rest still matches.
RECURSIVE MatchAtoms(_, _, _, _)
MatchAtoms(atoms, k, t, pos) ==
  IF k > Len(atoms) THEN pos
  ELSE LET a   == atoms[k]
           run == RunLen(a.set, t, pos)
       IN  IF a.rep = "one"
           THEN IF run >= 1 THEN MatchAtoms(atoms, k + 1, t, pos + 1) ELSE -1
           ELSE IF a.rep = "ahead"
           THEN IF run >= 1 THEN MatchAtoms(atoms, k + 1, t, pos) ELSE -1
           ELSE LET lo == IF a.rep = "plus" THEN 1 ELSE 0
                    ok == { n \in lo..run : MatchAtoms(atoms, k + 1, t, pos + n) # -1 }
                IN  IF ok = {} THEN -1
                    ELSE MatchAtoms(atoms, k + 1, t, pos + SetMax(ok))

\* re.compile(pattern).match(t, pos): the end of the match, or -1.  The first
\* alternative that matches is taken.
MatchPattern(pattern, t, pos) ==
  LET hits == { k \in 1..Len(pattern) : MatchAtoms(pattern[k], 1, t, pos) # -1 }
  IN  IF hits = {} THEN -1
      ELSE MatchAtoms(pattern[CHOOSE k \in hits : \A j \in hits : k <= j], 1, t, pos)

NoMatch == [group |-> "", end |-> -1]

\* _master_re.match(text, index): the alternation of the named groups in
\* order; lastgroup is the name of the first group that matches.
MasterMatch(parts, t, pos) ==
  LET hits == { k \in 1..Len(parts) : MatchPattern(parts[k].pattern, t, pos) # -1 }
  IN  IF hits = {} THEN NoMatch
      ELSE LET k == CHOOSE k \in hits : \A j \in hits : k <= j
           IN  [group |-> parts[k].name, end |-> MatchPattern(parts[k].pattern, t, pos)]

(***************************************************************************)
(* The class body: LexerMetaDict and the values stored in it               *)
(***************************************************************************)
EmptyDict == << >>

\* TokenStr(value): a string pattern with an empty remap table and no before.
TokenStr(pattern) ==
  [type |-> "str", pattern |-> pattern, remap |-> EmptyDict, before |-> "", body |-> ""]

\* before(tok, pattern)
before(tok, pattern) == [TokenStr(pattern) EXCEPT !.before = tok]

\* def NAME(self, t): body, with the pattern the decorator _ attached to it
\* (NoPattern when it is not decorated).
Func(pattern, body) ==
  [type |-> "func", pattern |-> pattern, remap |-> EmptyDict, before |-> "", body |-> body]

\* The class body is an insertion-ordered dict: a sequence of (key, val).
Keys(d) == { d[i].key : i \in DOMAIN d }

IndexOf(d, key) == CHOOSE i \in DOMAIN d : d[i].key = key

GetItem(d, key) == d[IndexOf(d, key)].val

\* A dict in which a key set again moves to the end.
DictSetMoveToEnd(d, key, value) ==
  SelectSeq(d, LAMBDA e : e.key # key) \o << [key |-> key, val |-> value] >>

\* dict.__setitem__: a key that is present keeps its place, a new one is appended.
DictSet(d, key, value) ==
  IF key \in Keys(d)
  THEN [d EXCEPT ![IndexOf(d, key)] = [key |-> key, val |-> value]]
  ELSE Append(d, [key |-> key, val |-> value])

\* LexerMetaDict.__setitem__
SetItem(d, key, value) ==
  LET prior == GetItem(d, key)
      v == IF key \in Keys(d) /\ prior.type = "str" /\ value.type = "func"
           THEN [value EXCEPT !.pattern = prior.pattern, !.remap = prior.remap]
           ELSE value
  IN  DictSet(d, key, v)

\* TokenStr.__setitem__, reached by the statement  KEY[text] = TO
RemapSetItem(d, key, txt, to) ==
  LET i == IndexOf(d, key)
  IN  [d EXCEPT ![i].val.remap = (txt :> to) @@ @]

\* Statements of a class body.
Assign(key, value) == [op |-> "assign", key |-> key, val |-> value, txt |-> << >>, to |-> ""]
Def(key, pattern, body) == Assign(key, Func(pattern, body))
Remap(key, txt, to) == [op |-> "remap", key |-> key, val |-> TokenStr(NoPattern), txt |-> txt, to |-> to]

\* The dict after the first k statements: cls._attributes for k = Len(body).
RECURSIVE Attributes(_, _)
Attributes(body, k) ==
  IF k = 0 THEN EmptyDict
  ELSE LET d == Attributes(body, k - 1)
           s == body[k]
       IN  IF s.op = "assign" THEN SetItem(d, s.key, s.val)
           ELSE RemapSetItem(d, s.key, s.txt, s.to)

(***************************************************************************)
(* Lexer._collect_rules and Lexer._build                                   *)
(***************************************************************************)
\* The names with the prefix ignore_, and what is left of each without it
\* (tokname[7:]).
IgnorePrefixed ==
  ("ignore_comment" :> "comment") @@ ("ignore_newline" :> "newline") @@
  ("ignore_ws" :> "ws")

startswith_ignore(key) == key \in DOMAIN IgnorePrefixed

\* hasattr(value, 'pattern'): strings have no such attribute.
hasattr_pattern(value) == value.type = "func" /\ value.pattern # NoPattern

\* CollectOne that appends every rule the base classes do not define.
CollectOneAppend(c, acc, key, value) ==
  IF key \in Keys(acc.rules)
  THEN [acc EXCEPT !.rules = [acc.rules EXCEPT ![IndexOf(acc.rules, key)] =
                                [key |-> key, val |-> value]]]
  ELSE [acc EXCEPT !.rules = Append(acc.rules, [key |-> key, val |-> value])]

\* One pass of the loop of _collect_rules over definitions[k].
CollectOne(c, acc, key, value) ==
  LET rules == acc.rules
  IN  IF key \in c.tokens \/ startswith_ignore(key) \/ hasattr_pattern(value)
      THEN IF key \in Keys(rules)
           THEN [acc EXCEPT !.rules = [rules EXCEPT ![IndexOf(rules, key)] =
                                         [key |-> key, val |-> value]]]
           ELSE IF value.type = "str" /\ value.before \in Keys(rules)
           THEN LET n == IndexOf(rules, value.before)
                IN  [acc EXCEPT !.rules = SubSeq(rules, 1, n - 1)
                                          \o << [key |-> key, val |-> value] >>
                                          \o SubSeq(rules, n, Len(rules))]
           ELSE [acc EXCEPT !.rules = Append(rules, [key |-> key, val |-> value])]
      ELSE IF value.type = "str"
           THEN [acc EXCEPT !.error = "LexerBuildError"]
           ELSE acc

RECURSIVE CollectLoop(_, _, _, _)
CollectLoop(c, definitions, k, acc) ==
  IF k > Len(definitions) \/ acc.error # "" THEN acc
  ELSE CollectLoop(c, definitions, k + 1,
                   CollectOne(c, acc, definitions[k].key, definitions[k].val))

RECURSIVE collect_rules(_)
RECURSIVE BaseRules(_, _)
BaseRules(bases, k) ==
  IF k > Len(bases) THEN << >>
  ELSE collect_rules(bases[k]).rules \o BaseRules(bases, k + 1)

collect_rules(c) ==
  CollectLoop(c, Attributes(c.body, Len(c.body)), 1,
              [rules |-> BaseRules(c.bases, 1), error |-> ""])

Range(f) == { f[x] : x \in DOMAIN f }

\* The build-time state of class Lexer itself.
LexerRoot ==
  [error |-> "", missing |-> {}, ignored_tokens |-> {}, token_funcs |-> EmptyDict,
   remapping |-> EmptyDict, master_re |-> << >>]

\* One pass of the loop of _build over a collected rule.
BuildOne(acc, key, value) ==
  LET tokname == IF startswith_ignore(key) THEN IgnorePrefixed[key] ELSE key
      ignored == IF startswith_ignore(key)
                 THEN acc.ignored_tokens \cup {tokname} ELSE acc.ignored_tokens
      funcs   == IF value.type = "func"
                 THEN (tokname :> value.body) @@ acc.token_funcs ELSE acc.token_funcs
      acc1    == [acc EXCEPT !.ignored_tokens = ignored, !.token_funcs = funcs]
  IN  IF value.type = "func" /\ value.pattern = NoPattern THEN acc1
      ELSE IF MatchPattern(value.pattern, << >>, 0) # -1
      THEN [acc1 EXCEPT !.error = "PatternError"]
      ELSE [acc1 EXCEPT !.master_re = Append(@, [name |-> tokname, pattern |-> value.pattern])]

RECURSIVE BuildLoop(_, _, _)
BuildLoop(rules, k, acc) ==
  IF k > Len(rules) \/ acc.error # "" THEN acc
  ELSE BuildLoop(rules, k + 1, BuildOne(acc, rules[k].key, rules[k].val))

\* Undefined that finds every remapped kind declared.
UndefinedNone(c, remapping) == {}

\* undefined = remapped_tokens - set(cls.tokens)
Undefined(c, remapping) ==
  UNION { Range(remapping[key]) : key \in DOMAIN remapping } \ c.tokens

\* Lexer._build: the class attributes _ignored_tokens, _token_funcs, _remapping
\* and _master_re of class c, given those it inherits (base), or the error
\* the build raises (missing: the kinds its message names) with the
\* attributes as the raise leaves them.
BuildFrom(base, c) ==
  LET attrs == Attributes(c.body, Len(c.body))
      own   == { attrs[i].key : i \in { j \in DOMAIN attrs : DOMAIN attrs[j].val.remap # {} } }
      remapping == [key \in own |-> GetItem(attrs, key).remap] @@ base.remapping
      undefined == Undefined(c, remapping)
      collected == collect_rules(c)
      start == [error |-> "", missing |-> {}, ignored_tokens |-> base.ignored_tokens,
                token_funcs |-> base.token_funcs, remapping |-> remapping,
                master_re |-> << >>]
      done  == BuildLoop(collected.rules, 1, start)
  IN  IF undefined # {}
      THEN [start EXCEPT !.error = "LexerBuildError", !.missing = undefined]
      ELSE IF collected.error # ""
      THEN [start EXCEPT !.error = "LexerBuildError"]
      ELSE IF done.error # "" \/ done.master_re # << >> THEN done
      ELSE [done EXCEPT !.master_re = base.master_re]

\* The class statement of c after those of its bases.
RECURSIVE build(_)
build(c) == BuildFrom(IF c.bases = << >> THEN LexerRoot ELSE build(c.bases[1]), c)

\* The class attributes tokenize reads through _set_state(cls).
set_state(c) ==
  LET b == build(c)
  IN  [ignored_tokens |-> b.ignored_tokens, master_re |-> b.master_re,
       ignore |-> c.ignore, token_funcs |-> b.token_funcs,
       literals |-> c.literals, remapping |-> b.remapping]

(***************************************************************************)
(* Lexer states: begin, push_state and pop_state                           *)
(***************************************************************************)
\* __state_stack = None, and the stack once push_state has made it a list.
NoStack == [none |-> TRUE, items |-> << >>]

Stack(items) == [none |-> FALSE, items |-> items]

\* The lexer after a call of begin, push_state or pop_state: its class, the
\* class attributes the running tokenize reads, its stack, and the exception
\* the call raised ("": none).
LexerState(c, lx, stack, error) == [cls |-> c, lex |-> lx, stack |-> stack, error |-> error]

\* begin that changes the class of the lexer and leaves the running tokenize
\* with the attributes of the class it had.
beginClassOnly(c, lx, stack, to) == LexerState(to, lx, stack, "")

\* begin(self, cls), called while tokenize runs: self.__set_state(cls);
\* self.__class__ = cls
begin(c, lx, stack, to) == LexerState(to, set_state(to), stack, "")

\* push_state that pushes the class it enters.
push_stateEntered(c, lx, stack, to) == begin(c, lx, Stack(Append(stack.items, to)), to)

\* push_state(self, cls): self.__state_stack.append(type(self)); self.begin(cls)
push_state(c, lx, stack, to) == begin(c, lx, Stack(Append(stack.items, c)), to)

\* pop_state(self): self.begin(self.__state_stack.pop()); the pop raises
\* AttributeError on None and IndexError on an empty list, ahead of begin.
pop_state(c, lx, stack) ==
  IF stack.none THEN LexerState(c, lx, stack, "AttributeError")
  ELSE IF stack.items = << >> THEN LexerState(c, lx, stack, "IndexError")
  ELSE begin(c, lx, Stack(SubSeq(stack.items, 1, Len(stack.items) - 1)),
             stack.items[Len(stack.items)])

(***************************************************************************)
(* Tokens, actions and error handlers                                      *)
(***************************************************************************)
\* The value None.
None == [type |-> "None", value |-> << >>, lineno |-> -1, index |-> -1]

\* tok = Token(); tok.lineno = lineno; tok.index = index
NewToken(ln, idx) == [type |-> "", value |-> << >>, lineno |-> ln, index |-> idx]

\* str.upper() on the characters of the model.
UpperChar(ch) == IF ch = "i" THEN "I" ELSE IF ch = "f" THEN "F" ELSE ch

upper(v) == [i \in DOMAIN v |-> UpperChar(v[i])]

\* t.value.count('\n')
count(v, ch) == Cardinality({ i \in DOMAIN v : v[i] = ch })

\* The bodies of the token functions of the lexers below.  self.index and
\* self.lineno are idx and ln when the function is called.
ActionBody(body, t, idx, ln) ==
  CASE body = "upper" ->
         [ret |-> [t EXCEPT !.value = upper(t.value)], index |-> idx, lineno |-> ln]
    [] body = "count_newlines" ->
         [ret |-> None, index |-> idx, lineno |-> ln + count(t.value, "\n")]
    [] body = "count_return" ->
         [ret |-> t, index |-> idx, lineno |-> ln + count(t.value, "\n")]
    [] body = "skip_one" ->
         [ret |-> t, index |-> idx + 1, lineno |-> ln]
    [] OTHER ->
         [ret |-> t, index |-> idx, lineno |-> ln]

\* The bodies of the user-defined error handlers.
ErrorBody(body, t, idx, ln) ==
  CASE body = "skip"         -> [ret |-> None, index |-> idx + 1, lineno |-> ln]
    [] body = "skip_return"  -> [ret |-> t, index |-> idx + 1, lineno |-> ln]
    [] body = "stuck_return" -> [ret |-> t, index |-> idx, lineno |-> ln]
    [] OTHER                 -> [ret |-> None, index |-> idx, lineno |-> ln]

ErrorHandlers == {"default", "skip", "skip_return", "stuck", "stuck_return"}

(***************************************************************************)
(* Lexer classes                                                           *)
(***************************************************************************)
Letters == {"i", "f"}
Digits == {"1"}
Chars == {"i", "f", "1", "+", "<", ">", "=", "(", ":", " ", "#", "\n"}

\* The class  . : any character but a newline.
Dot == Chars \ {"\n"}

Class(name, tokens, literals, ignore, body) ==
  [name |-> name, bases |-> << >>, tokens |-> tokens, literals |-> literals,
   ignore |-> ignore, body |-> body, error |-> "default"]

\* The operators of CalcLexer, with '+' also a literal.
OpsLexer ==
  Class("OpsLexer", {"PLUS", "ASSIGN", "LE", "LT"}, {"(", "+"}, {" "},
        << Assign("PLUS", TokenStr(Lit(<<"+">>))),
           Assign("ASSIGN", TokenStr(Lit(<<"=">>))),
           Assign("LE", TokenStr(Lit(<<"<", "=">>))),
           Assign("LT", TokenStr(Lit(<<"<">>))) >>)

\* A keyword declared as a string ahead of ID, with its function defined last;
\* LT is declared ahead of LE.
KwLexer ==
  Class("KwLexer", {"KW", "ID", "LT", "LE"}, {}, {},
        << Assign("KW", TokenStr(Lit(<<"i", "f">>))),
           Assign("ID", TokenStr(<< <<Plus(Letters)>> >>)),
           Assign("LT", TokenStr(Lit(<<"<">>))),
           Assign("LE", TokenStr(Lit(<<"<", "=">>))),
           Def("KW", NoPattern, "upper") >>)

\* The identifiers, keywords and numbers of ModernCalcLexer.
KeywordLexer ==
  Class("KeywordLexer", {"ID", "NUMBER", "IF"}, {}, {" "},
        << Assign("ID", TokenStr(<< <<One(Letters), Star(Letters \cup Digits)>> >>)),
           Remap("ID", <<"i", "f">>, "IF"),
           Assign("NUMBER", TokenStr(<< <<Plus(Digits)>> >>)),
           Def("NUMBER", NoPattern, "return_t"),
           Def("ID", NoPattern, "upper") >>)

\* The ignored comments and newlines of ModernCalcLexer; the comment rule is
\* given a remap table, which _build files under the name ignore_comment.
LineLexer ==
  Class("LineLexer", {"NUMBER"}, {"("}, {},
        << Assign("NUMBER", TokenStr(<< <<Plus(Digits)>> >>)),
           Assign("ignore_comment", TokenStr(<< <<One({"#"}), Star(Dot)>> >>)),
           Remap("ignore_comment", <<"#">>, "NUMBER"),
           Def("ignore_newline", << <<Plus({"\n"})>> >>, "count_newlines") >>)

\* A newline token whose function counts the line and returns the token, and
\* an ignored comment whose function returns its token.
NewlineLexer ==
  Class("NewlineLexer", {"NUMBER", "NEWLINE"}, {}, {},
        << Def("NEWLINE", << <<One({"\n"})>> >>, "count_return"),
           Assign("NUMBER", TokenStr(<< <<Plus(Digits)>> >>)),
           Def("ignore_comment", << <<One({"#"}), Star(Dot)>> >>, "return_t") >>)

\* A rule that is a lookahead: it matches in front of a digit and consumes
\* nothing.
AheadLexer ==
  Class("AheadLexer", {"AHEAD", "NUMBER"}, {}, {},
        << Assign("AHEAD", TokenStr(<< <<Ahead(Digits)>> >>)),
           Assign("NUMBER", TokenStr(<< <<Plus(Digits)>> >>)) >>)

\* A rule that matches the empty input.
StarLexer ==
  Class("StarLexer", {"NUMBER"}, {}, {},
        << Assign("NUMBER", TokenStr(<< <<Star(Digits)>> >>)) >>)

\* The newline rule of CalcLexer, whose function returns nothing though the
\* rule is not an ignore_ rule, and a function that moves self.index past the
\* character after its match.
SkipLexer ==
  Class("SkipLexer", {"NUMBER", "HASH"}, {}, {" "},
        << Assign("NUMBER", TokenStr(<< <<Plus(Digits)>> >>)),
           Def("newline", << <<Plus({"\n"})>> >>, "count_newlines"),
           Def("HASH", << <<One({"#"})>> >>, "skip_one") >>)

\* Two lexer states that differ in every class attribute tokenize reads.  In
\* each, < pushes the other state, > pops and : begins the other state.
MainLexer ==
  Class("MainLexer", {"NUMBER", "OPEN", "CLOSE", "SWITCH"}, {"+"}, {" "},
        << Assign("NUMBER", TokenStr(<< <<Plus(Digits)>> >>)),
           Def("OPEN", Lit(<<"<">>), "self.push_state(TagLexer)"),
           Def("CLOSE", Lit(<<">">>), "self.pop_state()"),
           Def("SWITCH", Lit(<<":">>), "self.begin(TagLexer)") >>)

TagLexer ==
  Class("TagLexer", {"ID", "IF", "OPEN", "CLOSE", "SWITCH"}, {"="}, {"1"},
        << Assign("ID", TokenStr(<< <<Plus(Letters)>> >>)),
           Remap("ID", <<"i", "f">>, "IF"),
           Def("ID", NoPattern, "upper"),
           Assign("ignore_ws", TokenStr(<< <<Plus({" "})>> >>)),
           Def("OPEN", Lit(<<"<">>), "self.push_state(MainLexer)"),
           Def("CLOSE", Lit(<<">">>), "self.pop_state()"),
           Def("SWITCH", Lit(<<":">>), "self.begin(MainLexer)") >>)

StateClass(name) == IF name = "TagLexer" THEN TagLexer ELSE MainLexer

\* Each state as the class of the lexer at the start, with the default error
\* method or one that skips a character defined in both.
StateClasses == { [d EXCEPT !.error = h] : d \in {MainLexer, TagLexer}, h \in {"default", "skip"} }

StateChars == {"1", "i", "f", "<", ">", ":", "+"}

\* class name(base): inherits tokens, literals and ignore unless given.
Subclass(name, base, tokens, body) ==
  [Class(name, tokens, base.literals, base.ignore, body) EXCEPT !.bases = << base >>]

\* A subclass of OpsLexer: PLUSPLUS declared with before(PLUS, r'\+\+'),
\* ASSIGN redefined as r'==', and the new rules COLON (with a function) and
\* ignore_ws.
SubOpsLexer ==
  Subclass("SubOpsLexer", OpsLexer, OpsLexer.tokens \cup {"PLUSPLUS", "COLON"},
           << Assign("PLUSPLUS", before("PLUS", Lit(<<"+", "+">>))),
              Assign("ASSIGN", TokenStr(Lit(<<"=", "=">>))),
              Assign("COLON", TokenStr(Lit(<<":">>))),
              Def("COLON", NoPattern, "return_t"),
              Assign("ignore_ws", TokenStr(<< <<Plus({"\n"})>> >>)) >>)

\* A keyword remapped to a kind that tokens does not hold.
BadRemapLexer ==
  Class("BadRemapLexer", {"ID", "NUMBER"}, {}, {" "},
        << Assign("ID", TokenStr(<< <<One(Letters), Star(Letters \cup Digits)>> >>)),
           Remap("ID", <<"i", "f">>, "IF"),
           Assign("NUMBER", TokenStr(<< <<Plus(Digits)>> >>)) >>)

\* NUMBER given a string pattern twice: r'1+' and, after ID, r'\#'.
DupLexer ==
  Class("DupLexer", {"NUMBER", "ID"}, {}, {},
        << Assign("NUMBER", TokenStr(<< <<Plus(Digits)>> >>)),
           Assign("ID", TokenStr(<< <<Plus(Letters)>> >>)),
           Assign("NUMBER", TokenStr(Lit(<<"#">>))) >>)

\* ID['if'] = IF with a function defined under the name IF and none under ID.
KindLexer ==
  Class("KindLexer", {"ID", "IF"}, {}, {" "},
        << Assign("ID", TokenStr(<< <<Plus(Letters)>> >>)),
           Remap("ID", <<"i", "f">>, "IF"),
           Def("IF", NoPattern, "upper") >>)

Declarations ==
  {OpsLexer, KwLexer, KeywordLexer, LineLexer, NewlineLexer, AheadLexer,
   StarLexer, SkipLexer, BadRemapLexer, DupLexer, KindLexer, SubOpsLexer}

\* Each declaration with each error handler defined in it ("default": none).
LexerClasses == { [d EXCEPT !.error = h] : d \in Declarations, h \in ErrorHandlers }

\* The characters of the input texts scanned with each class.
InputChars(name) ==
  CASE name = "OpsLexer"     -> {"+", "=", "<", "(", " ", ":"}
    [] name = "KwLexer"      -> {"i", "f", "<", "=", ":"}
    [] name = "KeywordLexer" -> {"i", "f", "1", " ", ":"}
    [] name = "LineLexer"    -> {"1", "#", "\n", "(", ":"}
    [] name = "AheadLexer"   -> {"1", ":"}
    [] name = "SkipLexer"    -> {"1", "\n", "#", " "}
    [] name = "DupLexer"     -> {"1", "#", "i"}
    [] name = "KindLexer"    -> {"i", "f", " "}
    [] name = "SubOpsLexer"  -> {"+", "=", "<", ":", "\n"}
    [] OTHER                 -> {"1", "\n", "#", ":"}

Texts(S) == UNION { [1..n -> S] : n \in 0..MaxLen }

\* The texts of the tests, written with the characters of the model:
\* 'abc if ...' of test_modern_tokens and '\n\n# A comment\n123\nabc\n' of
\* test_modern_ignored.
Scenarios(name) ==
  CASE name = "KeywordLexer" -> { <<"f", "i", " ", "i", "f", " ", "f">> }
    [] name = "LineLexer"    -> { <<"\n", "\n", "#", "1", "\n", "1", "\n", "1", "\n">> }
    [] name = "KindLexer"    -> { <<"f", " ", "i", "f">> }
    [] OTHER                 -> {}

(***************************************************************************)
(* Lexer.tokenize                                                          *)
(***************************************************************************)
\* The value of self.index and self.lineno before tokenize first sets them.
Unset == -1

NoError == [text |-> << >>, error_index |-> -1]

NoCall == [fn |-> "", at |-> -1, arg |-> None, index |-> -1, lineno |-> -1,
           ret |-> None, index_after |-> -1, lineno_after |-> -1]

Step(op, at, group, value, type, call, ret, yielded) ==
  [op |-> op, at |-> at, group |-> group, value |-> value, type |-> type,
   call |-> call, ret |-> ret, yielded |-> yielded]

\* RemapType that remaps every match of a rule with a remap table.
RemapTypeAnyValue(remapping, type, value) ==
  IF type \in DOMAIN remapping
  THEN remapping[type][CHOOSE v \in DOMAIN remapping[type] : TRUE] ELSE type

\* _remapping[tok.type].get(tok.value, tok.type) when tok.type in _remapping
RemapType(remapping, type, value) ==
  IF type \in DOMAIN remapping /\ value \in DOMAIN remapping[type]
  THEN remapping[type][value] ELSE type

\* Dispatch under the name of the matched rule.
DispatchByGroup(token_funcs, group, type) ==
  IF group \in DOMAIN token_funcs THEN group ELSE ""

\* The function tokenize calls on a matched token, "" when it calls none.
Dispatch(token_funcs, group, type) ==
  IF type \in DOMAIN token_funcs THEN type ELSE ""

\* Yields without the test of the ignored kinds.
YieldsIgnored(ignored_tokens, tok) == tok # None

\* Whether the token the match (and its function) left is yielded.
Yields(ignored_tokens, tok) == tok # None /\ tok.type \notin ignored_tokens

\* Branch with the literals tried ahead of the master matcher.
BranchLiteralFirst(lx, t, idx) ==
  IF ~InText(t, idx) THEN "end"
  ELSE IF CharAt(t, idx) \in lx.ignore THEN "ignore"
  ELSE IF CharAt(t, idx) \in lx.literals THEN "literal"
  ELSE IF MasterMatch(lx.master_re, t, idx) # NoMatch THEN "match"
  ELSE "error"

\* The branch one pass of the loop takes at position idx: the ignore
\* characters are tried first, then the master matcher, then the literals.
Branch(lx, t, idx) ==
  IF ~InText(t, idx) THEN "end"
  ELSE IF CharAt(t, idx) \in lx.ignore THEN "ignore"
  ELSE IF MasterMatch(lx.master_re, t, idx) # NoMatch THEN "match"
  ELSE IF CharAt(t, idx) \in lx.literals THEN "literal"
  ELSE "error"

\* No parser is run while a lexer is scanned.
PairIdle ==
  /\ gens = << >>
  /\ running = 0

BuildIdle ==
  /\ heap = << >>
  /\ classes = << >>
  /\ failed = {}

ParserIdle ==
  /\ grammar = << >>
  /\ table = << >>
  /\ toks = << >>
  /\ taken = 0
  /\ statestack = << >>
  /\ symstack = << >>
  /\ lookahead = << >>
  /\ lookaheadstack = << >>
  /\ errorcount = 0
  /\ errors = << >>
  /\ names = << >>
  /\ result = << >>
  /\ ppc = "idle"
  /\ plast = << >>

\* The state after the class statement and, when it raised nothing,
\* lexer = cls() and the call of lexer.tokenize(text); pc is "rejected" when
\* the class statement raised the error of the build and left no class.
Init ==
  /\ ParserIdle
  /\ PairIdle
  /\ BuildIdle
  /\ cls \in LexerClasses
  /\ lex = set_state(cls)
  /\ IF build(cls).error = ""
     THEN text \in Texts(InputChars(cls.name)) \cup Scenarios(cls.name) /\ pc = "run"
     ELSE text = << >> /\ pc = "rejected"
  /\ index = StartIndex
  /\ lineno = StartLineno
  /\ self_text = text
  /\ self_index = Unset
  /\ self_lineno = Unset
  /\ out = << >>
  /\ calls = << >>
  /\ last = Step("start", StartIndex, "", << >>, "", NoCall, None, FALSE)
  /\ raised = NoError
  /\ state_stack = NoStack
  /\ state_log = << >>

\* if text[index] in _ignore: index += 1; continue
TokenizeIgnore ==
  /\ pc = "run"
  /\ Branch(lex, text, index) = "ignore"
  /\ index' = index + 1
  /\ last' = Step("ignore", index, "", << >>, "", NoCall, None, FALSE)
  /\ UNCHANGED <<cls, text, lineno, lex, self_text, self_index, self_lineno,
                 pc, out, calls, raised>>
  /\ UNCHANGED <<statevars, parvars, pairvars, buildvars>>

\* A finally clause that leaves the position the scan started from.
FinallyAtStart(t, idx, ln) == [text |-> t, index |-> StartIndex, lineno |-> StartLineno]

\* finally: self.text = text; self.index = index; self.lineno = lineno
Finally(t, idx, ln) == [text |-> t, index |-> idx, lineno |-> ln]

\* except IndexError: return, and the finally clause
TokenizeEnd ==
  /\ pc = "run"
  /\ Branch(lex, text, index) = "end"
  /\ pc' = "done"
  /\ self_text' = Finally(text, index, lineno).text
  /\ self_index' = Finally(text, index, lineno).index
  /\ self_lineno' = Finally(text, index, lineno).lineno
  /\ last' = Step("end", index, "", << >>, "", NoCall, None, FALSE)
  /\ UNCHANGED <<cls, text, index, lineno, lex, out, calls, raised>>
  /\ UNCHANGED <<statevars, parvars, pairvars, buildvars>>

\* MatchedToken with the rest of the text as the value, as for an ERROR token.
MatchedTokenRestOfText(lx, t, idx, ln, m) ==
  [NewToken(ln, idx) EXCEPT
     !.value = SubSeq(t, idx + 1, Len(t)),
     !.type = RemapType(lx.remapping, m.group, SubSeq(t, idx + 1, m.end))]

\* index = m.end(); tok.value = m.group(); tok.type = m.lastgroup, and the
\* keyword remap of tok.type
MatchedToken(lx, t, idx, ln, m) ==
  [NewToken(ln, idx) EXCEPT
     !.value = SubSeq(t, idx + 1, m.end),
     !.type = RemapType(lx.remapping, m.group, SubSeq(t, idx + 1, m.end))]

\* self.index = index; self.lineno = lineno; tok = _token_funcs[tok.type](self, tok)
\* (fn = "": no function is called): the token returned and self.index and
\* self.lineno after the call.
CallAction(token_funcs, fn, tok, idx, ln) ==
  IF fn # "" THEN ActionBody(token_funcs[fn], tok, idx, ln)
  ELSE [ret |-> tok, index |-> idx, lineno |-> ln]

\* AfterCall that keeps the loop's own line number.
AfterCallStaleLineno(r, idx, ln) == [index |-> r.index, lineno |-> ln]

\* index = self.index; lineno = self.lineno  after the call that left r
\* (idx and ln are the values the loop held before it).
AfterCall(r, idx, ln) == [index |-> r.index, lineno |-> r.lineno]

MatchResult(lx, tok, m, ln, fn, r) ==
  [group |-> m.group, value |-> tok.value, type |-> tok.type, fn |-> fn,
   call |-> IF fn # ""
            THEN [fn |-> fn, at |-> tok.index, arg |-> tok, index |-> m.end,
                  lineno |-> ln, ret |-> r.ret, index_after |-> r.index,
                  lineno_after |-> r.lineno]
            ELSE NoCall,
   ret |-> r.ret, index |-> AfterCall(r, m.end, ln).index,
   lineno |-> AfterCall(r, m.end, ln).lineno,
   yields |-> Yields(lx.ignored_tokens, r.ret)]

MatchDispatched(lx, tok, m, ln, fn) ==
  MatchResult(lx, tok, m, ln, fn, CallAction(lx.token_funcs, fn, tok, m.end, ln))

MatchRemapped(lx, tok, m, ln) ==
  MatchDispatched(lx, tok, m, ln, Dispatch(lx.token_funcs, m.group, tok.type))

\* What one pass of the loop does with the match m at position idx.
MatchStep(lx, t, idx, ln, m) ==
  MatchRemapped(lx, MatchedToken(lx, t, idx, ln, m), m, ln)

\* The state call a function body makes: its name and the class it names.
StateCalls ==
  ("self.push_state(TagLexer)" :> [op |-> "push_state", to |-> "TagLexer"]) @@
  ("self.push_state(MainLexer)" :> [op |-> "push_state", to |-> "MainLexer"]) @@
  ("self.begin(TagLexer)" :> [op |-> "begin", to |-> "TagLexer"]) @@
  ("self.begin(MainLexer)" :> [op |-> "begin", to |-> "MainLexer"]) @@
  ("self.pop_state()" :> [op |-> "pop_state", to |-> ""])

StateCall(body) == IF body \in DOMAIN StateCalls THEN StateCalls[body] ELSE [op |-> "", to |-> ""]

\* The lexer after the function fn (body: its body) was called on a match.
AfterFunction(c, lx, stack, body) ==
  LET call == StateCall(body)
      to   == [StateClass(call.to) EXCEPT !.error = c.error]
  IN  CASE call.op = "begin"      -> begin(c, lx, stack, to)
        [] call.op = "push_state" -> push_state(c, lx, stack, to)
        [] call.op = "pop_state"  -> pop_state(c, lx, stack)
        [] OTHER                  -> LexerState(c, lx, stack, "")

\* An exception other than LexError that leaves tokenize: its name stands
\* where LexError has its text.
Raised(name, idx) == [text |-> << name >>, error_index |-> idx]

\* m = _master_re.match(text, index) matched
TokenizeMatch ==
  /\ pc = "run"
  /\ Branch(lex, text, index) = "match"
  /\ Len(out) < MaxOut
  /\ \E s \in {MatchStep(lex, text, index, lineno, MasterMatch(lex.master_re, text, index))} :
     \E st \in {AfterFunction(cls, lex, state_stack,
                               IF s.fn # "" THEN lex.token_funcs[s.fn] ELSE "")} :
         /\ index' = s.index
         /\ lineno' = s.lineno
         /\ cls' = st.cls
         /\ lex' = st.lex
         /\ state_stack' = st.stack
         /\ state_log' = IF s.fn # "" /\ StateCall(lex.token_funcs[s.fn]).op # ""
                         THEN Append(state_log,
                                     [op |-> StateCall(lex.token_funcs[s.fn]).op,
                                      from |-> cls.name, to |-> st.cls.name,
                                      error |-> st.error])
                         ELSE state_log
         /\ IF st.error = ""
            THEN /\ self_index' = IF s.fn # "" THEN s.index ELSE self_index
                 /\ self_lineno' = IF s.fn # "" THEN s.lineno ELSE self_lineno
                 /\ calls' = IF s.fn # "" THEN Append(calls, s.call) ELSE calls
                 /\ out' = IF s.yields THEN Append(out, s.ret) ELSE out
                 /\ last' = Step("match", index, s.group, s.value, s.type, s.call, s.ret, s.yields)
                 /\ UNCHANGED <<self_text, pc, raised>>
            ELSE /\ self_text' = Finally(text, s.index, s.lineno).text
                 /\ self_index' = Finally(text, s.index, s.lineno).index
                 /\ self_lineno' = Finally(text, s.index, s.lineno).lineno
                 /\ calls' = Append(calls, [s.call EXCEPT !.ret = None])
                 /\ last' = Step("match", index, s.group, s.value, s.type,
                                 [s.call EXCEPT !.ret = None], None, FALSE)
                 /\ pc' = "raised"
                 /\ raised' = Raised(st.error, s.index)
                 /\ UNCHANGED out
  /\ UNCHANGED text
  /\ UNCHANGED <<parvars, pairvars, buildvars>>

\* tok.value = text[index]; tok.type = tok.value; index += 1; yield tok
LiteralToken(tok0, t, idx) ==
  [tok0 EXCEPT !.value = << CharAt(t, idx) >>, !.type = CharAt(t, idx)]

TokenizeLiteral ==
  /\ pc = "run"
  /\ Branch(lex, text, index) = "literal"
  /\ LET tok == LiteralToken(NewToken(lineno, index), text, index)
     IN  /\ index' = index + 1
         /\ out' = Append(out, tok)
         /\ last' = Step("literal", index, "", tok.value, tok.type, NoCall, tok, TRUE)
  /\ UNCHANGED <<cls, text, lineno, lex, self_text, self_index, self_lineno,
                 pc, calls, raised>>
  /\ UNCHANGED <<statevars, parvars, pairvars, buildvars>>

\* ErrorToken with the offending character alone as its value.
ErrorTokenOneChar(tok0, t, idx) ==
  [tok0 EXCEPT !.type = "ERROR", !.value = << CharAt(t, idx) >>]

\* tok.type = 'ERROR'; tok.value = text[index:]
ErrorToken(tok0, t, idx) ==
  [tok0 EXCEPT !.type = "ERROR", !.value = SubSeq(t, idx + 1, Len(t))]

\* self.index = index; self.lineno = lineno; tok = self.error(tok);
\* index = self.index; lineno = self.lineno
ErrorResult(tok, idx, ln, r) ==
  [call |-> [fn |-> "error", at |-> tok.index, arg |-> tok, index |-> idx,
             lineno |-> ln, ret |-> r.ret, index_after |-> r.index,
             lineno_after |-> r.lineno],
   value |-> tok.value, type |-> tok.type,
   ret |-> r.ret, index |-> AfterCall(r, idx, ln).index,
   lineno |-> AfterCall(r, idx, ln).lineno, yields |-> r.ret # None]

ErrorStep(handler, tok, idx, ln) ==
  ErrorResult(tok, idx, ln, ErrorBody(handler, tok, idx, ln))

\* A lexing error handled by the error method the class defines.
TokenizeError ==
  /\ pc = "run"
  /\ Branch(lex, text, index) = "error"
  /\ cls.error # "default"
  /\ Len(calls) < MaxCalls
  /\ LET s == ErrorStep(cls.error, ErrorToken(NewToken(lineno, index), text, index),
                        index, lineno)
     IN  /\ self_index' = s.index
         /\ self_lineno' = s.lineno
         /\ index' = s.index
         /\ lineno' = s.lineno
         /\ calls' = Append(calls, s.call)
         /\ out' = IF s.yields THEN Append(out, s.ret) ELSE out
         /\ last' = Step("error", index, "", s.value, s.type, s.call, s.ret, s.yields)
  /\ UNCHANGED <<cls, text, lex, self_text, pc, raised>>
  /\ UNCHANGED <<statevars, parvars, pairvars, buildvars>>

\* LexError carrying the offending character alone.
LexErrorFirstChar(t, idx) == [text |-> SubSeq(t.value, 1, 1), error_index |-> idx]

\* Lexer.error: raise LexError(message, t.value, self.index)
LexError(t, idx) == [text |-> t.value, error_index |-> idx]

\* A lexing error with the default error method: LexError leaves tokenize
\* through the finally clause.
RaiseStep(tok, idx, ln) ==
  [call |-> [fn |-> "error", at |-> tok.index, arg |-> tok, index |-> idx,
             lineno |-> ln, ret |-> None, index_after |-> idx, lineno_after |-> ln],
   value |-> tok.value, type |-> tok.type, raised |-> LexError(tok, idx)]

TokenizeRaise ==
  /\ pc = "run"
  /\ Branch(lex, text, index) = "error"
  /\ cls.error = "default"
  /\ LET s == RaiseStep(ErrorToken(NewToken(lineno, index), text, index), index, lineno)
     IN  /\ raised' = s.raised
         /\ calls' = Append(calls, s.call)
         /\ last' = Step("error", index, "", s.value, s.type, s.call, None, FALSE)
  /\ pc' = "raised"
  /\ self_text' = Finally(text, index, lineno).text
  /\ self_index' = Finally(text, index, lineno).index
  /\ self_lineno' = Finally(text, index, lineno).lineno
  /\ UNCHANGED <<cls, text, index, lineno, lex, out>>
  /\ UNCHANGED <<statevars, parvars, pairvars, buildvars>>

\* The scan of a text by a lexer whose functions switch its state.
StateInit ==
  /\ ParserIdle
  /\ PairIdle
  /\ BuildIdle
  /\ cls \in StateClasses
  /\ lex = set_state(cls)
  /\ text \in Texts(StateChars)
  /\ pc = "run"
  /\ index = StartIndex
  /\ lineno = StartLineno
  /\ self_text = text
  /\ self_index = Unset
  /\ self_lineno = Unset
  /\ out = << >>
  /\ calls = << >>
  /\ last = Step("start", StartIndex, "", << >>, "", NoCall, None, FALSE)
  /\ raised = NoError
  /\ state_stack = NoStack
  /\ state_log = << >>

Next ==
  \/ TokenizeIgnore
  \/ TokenizeMatch
  \/ TokenizeLiteral
  \/ TokenizeError
  \/ TokenizeRaise
  \/ TokenizeEnd

Spec == Init /\ [][Next]_vars

StateSpec == StateInit /\ [][Next]_vars

(***************************************************************************)
(* What the class body declares, read off its statements                   *)
(***************************************************************************)
\* The token kind a rule named key matches under.
TokName(key) == IF key \in DOMAIN IgnorePrefixed THEN IgnorePrefixed[key] ELSE key

\* The statements of c that define a rule of kind name, and the first of them.
DeclStmts(c, name) ==
  { k \in DOMAIN c.body : c.body[k].op = "assign" /\ TokName(c.body[k].key) = name }

DeclPos(c, name) == CHOOSE k \in DeclStmts(c, name) : \A j \in DeclStmts(c, name) : k <= j

\* The kind the statements NAME[txt] = TO of c give the text txt matched by
\* rule name: the last such statement decides, and name itself when there is none.
RemapStmts(c, name, txt) ==
  { k \in DOMAIN c.body : c.body[k].op = "remap" /\ c.body[k].key = name
                          /\ c.body[k].txt = txt }

ExpectedKind(c, name, txt) ==
  IF RemapStmts(c, name, txt) = {} THEN name
  ELSE c.body[SetMax(RemapStmts(c, name, txt))].to

\* Whether c declares the rule of kind name under a name with the prefix ignore_.
DeclaredIgnored(c, name) ==
  \E k \in DeclStmts(c, name) : c.body[k].key \in DOMAIN IgnorePrefixed

\* Whether c defines a function for the rule of kind name.
DeclaredFunc(c, name) ==
  \E k \in DeclStmts(c, name) : c.body[k].val.type = "func"

\* Whether some rule of the built class matches at position pos.
SomeRuleMatches(parts, t, pos) ==
  \E k \in DOMAIN parts : MatchPattern(parts[k].pattern, t, pos) # -1

LastOut == out[Len(out)]

C2_KeywordRemap ==
  (last.op = "match" /\ last.yielded) =>
    /\ LastOut.type = ExpectedKind(cls, last.group, last.value)
    /\ LastOut.index = last.at
    /\ LastOut.type # last.group =>
         IF last.call = NoCall THEN LastOut.value = last.value
         ELSE last.call.arg.type = LastOut.type /\ last.call.arg.value = last.value

\* C2 witness: the text if matched by ID is yielded as IF after a NUMBER.
C2_Witness ==
  /\ last.op = "match"
  /\ last.yielded
  /\ last.group = "ID"
  /\ Len(out) = 2
  /\ out[1].type = "NUMBER"
  /\ out[2].type = "IF"
  /\ out[2].value = <<"i", "f">>

C4_IgnoredRuleDropped ==
  /\ (last.op = "match" /\ DeclaredIgnored(cls, last.group)) =>
       /\ ~last.yielded
       /\ index = last.at + Len(last.value)
       /\ DeclaredFunc(cls, last.group) =>
            /\ last.call.fn = last.group
            /\ last.call.arg.value = last.value
            /\ last.call.at = last.at
            /\ calls # << >> /\ calls[Len(calls)] = last.call
  /\ \A i \in DOMAIN out : ~DeclaredIgnored(cls, out[i].type)

\* C4 witness: the function of an ignored rule returned the token of a
\* two-character comment, and the token was dropped.
C4_Witness ==
  /\ last.op = "match"
  /\ DeclaredIgnored(cls, last.group)
  /\ last.call # NoCall
  /\ last.call.ret # None
  /\ Len(last.value) = 2
  /\ out # << >>

\* Whether no call of a function or of the error handler left the index
\* behind the index it was called with.
NoCallMovesBack == \A k \in DOMAIN calls : calls[k].index_after >= calls[k].index

\* C5: in a run in which no action and no error handler moves the index
\* backward, the indices of successively yielded tokens are strictly
\* increasing, and each token's index is the position where its match, literal
\* or error started.
C5_IndexStrictlyIncreasing ==
  NoCallMovesBack =>
    /\ \A i \in 1..(Len(out) - 1) : out[i].index < out[i + 1].index
    /\ last.yielded => LastOut.index = last.at

\* The sum of the line-number increments made by the first k calls on matches
\* that start before position limit.
RECURSIVE Increments(_, _)
Increments(k, limit) ==
  IF k = 0 THEN 0
  ELSE Increments(k - 1, limit)
       + (IF calls[k].at < limit THEN calls[k].lineno_after - calls[k].lineno ELSE 0)

\* C6: the lineno of every yielded token is the starting line number plus
\* the increments made by the functions called on matches that start before
\* the token, those of dropped matches included, and no other increment.
C6_LinenoSeesEarlierIncrements ==
  \A i \in DOMAIN out :
    out[i].lineno = StartLineno + Increments(Len(calls), out[i].index)

\* C6 witness: a yielded token whose own function added a line keeps the old
\* line number, and the next token has the new one.
C6_Witness ==
  /\ Len(out) = 2
  /\ out[1].type = "NEWLINE"
  /\ out[1].lineno = StartLineno
  /\ out[2].lineno = StartLineno + 1
  /\ \E k \in DOMAIN calls :
       calls[k].at = out[1].index /\ calls[k].lineno_after = calls[k].lineno + 1

\* C7: a literal token is produced exactly when no rule matches at the
\* current index and the character there is in the literal set (and is not an
\* ignore character); its kind and value are that character, its index the
\* current index, and the scan advances by one; where a rule matches, the rule
\* makes the token even if the character is in the literal set.
C7_LiteralFallback ==
  LET ch == CharAt(text, last.at)
  IN  /\ last.op = "literal" =>
           /\ ch \in cls.literals
           /\ ch \notin cls.ignore
           /\ ~SomeRuleMatches(lex.master_re, text, last.at)
           /\ last.yielded
           /\ LastOut = [type |-> ch, value |-> <<ch>>, lineno |-> lineno, index |-> last.at]
           /\ index = last.at + 1
      /\ last.op = "match" =>
           /\ SomeRuleMatches(lex.master_re, text, last.at)
           /\ last.group # ""
           /\ last.type # ch
      /\ last.op = "error" =>
           /\ ch \notin cls.literals
           /\ ~SomeRuleMatches(lex.master_re, text, last.at)

\* C7 witness: '+' is in the literal set and is tokenized by the rule PLUS,
\* and the '(' after it, which no rule matches, is a literal token.
C7_Witness ==
  /\ last.op = "literal"
  /\ Len(out) = 2
  /\ out[1].type = "PLUS"
  /\ out[1].value = <<"+">>
  /\ "+" \in cls.literals
  /\ out[2].type = "("

C9_StuckHandlerIsFatal ==
  (/\ last.op = "error"
   /\ cls.error # "default"
   /\ last.call.index_after = last.call.index) =>
    /\ pc = "raised"
    /\ raised.error_index = last.at

\* C10: with no user-defined error handler the first character nothing
\* accepts makes tokenize raise LexError with the rest of the text from that
\* character and with its index; the tokens yielded all start before it, and
\* nothing is scanned or yielded afterwards.
C10_DefaultErrorRaises ==
  /\ (last.op = "error" /\ cls.error = "default") =>
       /\ pc = "raised"
       /\ raised.text = SubSeq(text, last.at + 1, Len(text))
       /\ raised.error_index = last.at
       /\ index = last.at
       /\ \A i \in DOMAIN out : out[i].index < raised.error_index
       /\ Cardinality({ k \in DOMAIN calls : calls[k].fn = "error" }) = 1
       /\ CharAt(text, last.at) \notin (cls.ignore \cup cls.literals)
       /\ ~SomeRuleMatches(lex.master_re, text, last.at)
  /\ pc = "raised" =>
       /\ last.op = "error" /\ cls.error = "default"
       /\ ~ENABLED Next

\* C10 witness: LexError is raised in the middle of the text after a token
\* was yielded.
C10_Witness ==
  /\ pc = "raised"
  /\ Len(out) = 1
  /\ raised.error_index = 1
  /\ Len(raised.text) = 2

\* C11: a class with a rule whose pattern matches the empty input is rejected
\* by the build with PatternError, and in a class the build accepts every
\* match the master matcher makes, at any position of the text, has length at
\* least one: no rule of an accepted class matches the empty string there.
C11_MasterNeverMatchesEmpty ==
  /\ build(StarLexer).error = "PatternError"
  /\ last.op = "match" =>
       /\ Len(last.value) >= 1
       /\ \A k \in DOMAIN lex.master_re :
            MatchPattern(lex.master_re[k].pattern, text, last.at) # last.at

\* Whether every call of the error handler so far left the index ahead of
\* the index it was called with, and no call of a function left it behind.
HandlersAdvance ==
  \A k \in DOMAIN calls :
    IF calls[k].fn = "error" THEN calls[k].index_after > calls[k].index
    ELSE calls[k].index_after >= calls[k].index

\* C12: in a scan in which the error handler advances the index at each call
\* and no function moves it backward, every pass of the loop of tokenize
\* leaves the index strictly ahead of where the pass started, so no more
\* tokens are yielded than the text has characters, and tokenize stops with
\* the index at the end of the text.
C12_EveryPassAdvances ==
  HandlersAdvance =>
    /\ last.op \in {"ignore", "match", "literal", "error"} => index > last.at
    /\ Len(out) <= Len(text)
    /\ pc = "done" => index >= Len(text)

\* Whether the function with this body returns nothing.
ReturnsNothing(body) ==
  ActionBody(body, NewToken(StartLineno, StartIndex), StartIndex, StartLineno).ret = None

\* Whether the match of rule group on the text value is one the scan removes:
\* the rule is an ignore_ rule, or (with dropped) the function registered
\* under the kind of the match returns nothing.
RemovedMatch(group, value, dropped) ==
  \/ DeclaredIgnored(cls, group)
  \/ /\ dropped
     /\ ExpectedKind(cls, group, value) \in DOMAIN lex.token_funcs
     /\ ReturnsNothing(lex.token_funcs[ExpectedKind(cls, group, value)])

\* The text between the positions from and to with the ignore characters
\* and the removed matches taken out.
RECURSIVE Stripped(_, _, _)
Stripped(from, to, dropped) ==
  IF from >= to \/ ~InText(text, from) THEN << >>
  ELSE IF CharAt(text, from) \in cls.ignore THEN Stripped(from + 1, to, dropped)
  ELSE LET m == MasterMatch(lex.master_re, text, from)
       IN  IF m = NoMatch
           THEN << CharAt(text, from) >> \o Stripped(from + 1, to, dropped)
           ELSE IF m.end = from THEN << >>
           ELSE IF RemovedMatch(m.group, SubSeq(text, from + 1, m.end), dropped)
           THEN Stripped(m.end, to, dropped)
           ELSE SubSeq(text, from + 1, m.end) \o Stripped(m.end, to, dropped)

\* The concatenation of the values of the first n yielded tokens.
RECURSIVE Concat(_)
Concat(n) == IF n = 0 THEN << >> ELSE Concat(n - 1) \o out[n].value

\* Whether the yielded tokens are spans of the text in increasing order that
\* do not overlap and end at or before the current index.
DisjointSpans ==
  /\ \A i \in DOMAIN out :
       out[i].value = SubSeq(text, out[i].index + 1, out[i].index + Len(out[i].value))
  /\ \A i \in 1..(Len(out) - 1) :
       out[i].index + Len(out[i].value) <= out[i + 1].index
  /\ out # << >> => LastOut.index + Len(LastOut.value) <= index

\* Whether no lexing error happened and every function returned the token
\* with the value it was given, or nothing.
ValuesUnchanged ==
  \A k \in DOMAIN calls :
    /\ calls[k].fn # "error"
    /\ calls[k].ret # None => calls[k].ret.value = calls[k].arg.value

\* C13 as stated: in a scan without a lexing error whose functions leave
\* the token values unchanged, the concatenation of the values of the yielded
\* tokens is the scanned text with the ignore characters and the matches of
\* the ignore_ rules removed, and the tokens are disjoint spans of the text
\* in increasing order.
C13_ConcatIsTextLessIgnored ==
  ValuesUnchanged =>
    /\ Concat(Len(out)) = Stripped(0, index, FALSE)
    /\ DisjointSpans

\* C13 amended: when the functions also leave self.index unchanged, the
\* concatenation is the scanned text with the ignore characters, the matches
\* of the ignore_ rules and the matches whose function returned nothing
\* removed, and the tokens are disjoint spans of the text in increasing order.
C13_ConcatIsTextLessDropped ==
  (/\ ValuesUnchanged
   /\ \A k \in DOMAIN calls : calls[k].index_after = calls[k].index) =>
    /\ Concat(Len(out)) = Stripped(0, index, TRUE)
    /\ DisjointSpans

\* C13 witness: the scan of 1, newline, 1 ended with two NUMBER tokens, the
\* newline between them matched by a rule that is no ignore_ rule and dropped
\* because its function returned nothing.
C13_Witness ==
  /\ pc = "done"
  /\ cls.name = "SkipLexer"
  /\ Len(text) = 3
  /\ Len(out) = 2
  /\ ValuesUnchanged
  /\ \E k \in DOMAIN calls :
       calls[k].fn = "newline" /\ calls[k].ret = None /\ calls[k].index_after = calls[k].index

(***************************************************************************)
(* Grammars                                                                *)
(***************************************************************************)
\* The number of places before place k of the sequence of names flat that
\* hold the name at place k, and the number of places that hold it at all.
Before(flat, k) == Cardinality({ i \in 1..(k - 1) : flat[i] = flat[k] })
Occurrences(flat, k) == Cardinality({ i \in DOMAIN flat : flat[i] = flat[k] })

\* AttrName with the occurrences counted from 1.
AttrNameFromOne(flat, k) ==
  IF Occurrences(flat, k) = 1 THEN flat[k] ELSE flat[k] \o ToString(Before(flat, k) + 1)

\* The attribute under which an action reads the symbol at place k: the
\* symbol's name when it occurs once, and the name followed by the number of
\* the occurrence, counted from 0, when it occurs more than once.
AttrName(flat, k) ==
  IF Occurrences(flat, k) = 1 THEN flat[k] ELSE flat[k] \o ToString(Before(flat, k))

\* The name map of a production without groups: attribute AttrName(rhs, k)
\* is the value at place k - 1 of the slice.
NameMap(rhs) ==
  [k \in DOMAIN rhs |->
     [name |-> AttrName(rhs, k), at |-> k - 1, sub |-> -1, kind |-> "sym", width |-> 1]]

\* A production: its nonterminal, its right-hand side, the name of its %prec
\* tag ("" when it has none), the body of its action and its name map.
Production(name, rhs, prec, func) ==
  [name |-> name, rhs |-> rhs, prec |-> prec, func |-> func, namemap |-> NameMap(rhs)]

Rule(name, rhs, func) == Production(name, rhs, "", func)

\* A precedence level.
Level(assoc, terms) == [assoc |-> assoc, terms |-> terms]

\* The grammar of a parser class: production 0 is S' -> start, where start is
\* the nonterminal of the first rule.
Grammar(name, tokens, precedence, rules) ==
  [name |-> name, tokens |-> tokens, precedence |-> precedence,
   prods |-> << Rule("S'", << rules[1].name >>, "") >> \o rules]

\* Productions are numbered from 0.
NProds(G) == Len(G.prods)
Prod(G, p) == G.prods[p + 1]
ProdNumbers(G) == 0..(NProds(G) - 1)

Nonterminals(G) == { Prod(G, p).name : p \in ProdNumbers(G) }

EndMarker == "$end"

Terminals(G) ==
  (G.tokens \cup {"error", EndMarker}
     \cup UNION { { Prod(G, p).rhs[i] : i \in DOMAIN Prod(G, p).rhs } : p \in ProdNumbers(G) })
  \ Nonterminals(G)

ProdsOf(G, A) == { p \in ProdNumbers(G) : Prod(G, p).name = A }

\* The nonterminals that derive the empty string.
RECURSIVE NullableFix(_, _)
NullableFix(G, N) ==
  LET more == { Prod(G, p).name : p \in { q \in ProdNumbers(G) :
                   \A i \in DOMAIN Prod(G, q).rhs : Prod(G, q).rhs[i] \in N } }
  IN  IF more \subseteq N THEN N ELSE NullableFix(G, N \cup more)

Nullable(G) == NullableFix(G, {})

\* The terminals that can begin what seq[k..] derives, with those of rest
\* when all of it can derive the empty string.
RECURSIVE FirstOfSeq(_, _, _, _, _, _)
FirstOfSeq(G, F, N, seq, k, rest) ==
  IF k > Len(seq) THEN rest
  ELSE IF seq[k] \notin Nonterminals(G) THEN {seq[k]}
  ELSE F[seq[k]] \cup (IF seq[k] \in N THEN FirstOfSeq(G, F, N, seq, k + 1, rest) ELSE {})

RECURSIVE FirstFix(_, _, _)
FirstFix(G, N, F) ==
  LET F2 == [A \in Nonterminals(G) |->
               UNION { FirstOfSeq(G, F, N, Prod(G, p).rhs, 1, {}) : p \in ProdsOf(G, A) }]
  IN  IF F2 = F THEN F ELSE FirstFix(G, N, F2)

First(G) == FirstFix(G, Nullable(G), [A \in Nonterminals(G) |-> {}])

(***************************************************************************)
(* Items and LALR(1) states                                                *)
(***************************************************************************)
Item(p, dot) == [p |-> p, dot |-> dot]
Item1(p, dot, la) == [p |-> p, dot |-> dot, la |-> la]

\* The symbol after the dot, "" for a completed item.
NextSym(G, it) ==
  IF it.dot < Len(Prod(G, it.p).rhs) THEN Prod(G, it.p).rhs[it.dot + 1] ELSE ""

RECURSIVE Closure1(_, _, _, _)
Closure1(G, F, N, I) ==
  LET more == UNION { { Item1(q, 0, b) :
                          q \in ProdsOf(G, NextSym(G, it)),
                          b \in FirstOfSeq(G, F, N, Prod(G, it.p).rhs, it.dot + 2, {it.la}) }
                      : it \in I }
  IN  IF more \subseteq I THEN I ELSE Closure1(G, F, N, I \cup more)

Kernel(I) == { Item(it.p, it.dot) : it \in I }

Advance(G, I, X) ==
  { [it EXCEPT !.dot = @ + 1] : it \in { i \in I : NextSym(G, i) = X } }

StartKernel == { Item(0, 0) }

RECURSIVE LalrFix(_, _, _, _)
LalrFix(G, F, N, facts) ==
  LET states == { f.k : f \in facts }
      more == UNION { LET I == Closure1(G, F, N, { f.it : f \in { g \in facts : g.k = K } })
                      IN  UNION { { [k |-> Kernel(Advance(G, I, X)), it |-> a]
                                      : a \in Advance(G, I, X) }
                                  : X \in { NextSym(G, it) : it \in I } \ {""} }
                      : K \in states }
  IN  IF more \subseteq facts THEN facts ELSE LalrFix(G, F, N, facts \cup more)

Lalr(G) ==
  LalrFix(G, First(G), Nullable(G), { [k |-> StartKernel, it |-> Item1(0, 0, EndMarker)] })


(***************************************************************************)
(* Precedence and the resolution of conflicts                              *)
(***************************************************************************)
NoPrec == [level |-> 0, assoc |-> ""]

\* The precedence of a terminal or of a %prec name: levels are numbered from 1
\* in the order declared, a later level binding tighter.
TermPrec(G, a) ==
  IF \E i \in DOMAIN G.precedence : a \in G.precedence[i].terms
  THEN LET i == CHOOSE j \in DOMAIN G.precedence : a \in G.precedence[j].terms
       IN  [level |-> i, assoc |-> G.precedence[i].assoc]
  ELSE NoPrec

\* The precedence of a production: that of its %prec tag, else that of its
\* rightmost terminal.
ProdPrec(G, p) ==
  LET rhs == Prod(G, p).rhs
      ts  == { i \in DOMAIN rhs : rhs[i] \notin Nonterminals(G) }
  IN  IF Prod(G, p).prec # "" THEN TermPrec(G, Prod(G, p).prec)
      ELSE IF ts = {} THEN NoPrec
      ELSE TermPrec(G, rhs[CHOOSE i \in ts : \A j \in ts : j <= i])

Shift(n) == [kind |-> "shift", arg |-> n]
Reduce(p) == [kind |-> "reduce", arg |-> p]
Accept == [kind |-> "accept", arg |-> 0]

\* What a shift/reduce conflict between terminal precedence tp and production
\* precedence pp keeps, and whether it is reported.
ResolveSR(tp, pp) ==
  IF tp.level = 0 \/ pp.level = 0 THEN [keep |-> "shift", warn |-> TRUE]
  ELSE IF pp.level > tp.level THEN [keep |-> "reduce", warn |-> FALSE]
  ELSE IF tp.level > pp.level THEN [keep |-> "shift", warn |-> FALSE]
  ELSE IF tp.assoc = "left" THEN [keep |-> "reduce", warn |-> FALSE]
  ELSE IF tp.assoc = "right" THEN [keep |-> "shift", warn |-> FALSE]
  ELSE [keep |-> "none", warn |-> FALSE]

\* Of the reduce entries of a cell, the one a reduce/reduce conflict keeps.
ResolveRR(reds) == CHOOSE p \in reds : \A q \in reds : p <= q

\* The entries the generator enters at ACTION[I, a]: I is the closed item set
\* of the state and target the number of goto(I, a), -1 when there is none.
Entries(G, I, a, target) ==
  (IF target >= 0 THEN {Shift(target)} ELSE {})
  \cup { Reduce(it.p) : it \in { i \in I : NextSym(G, i) = "" /\ i.la = a /\ i.p # 0 } }
  \cup (IF a = EndMarker /\ Item1(0, 1, EndMarker) \in I THEN {Accept} ELSE {})

Reduces(entries) == { e.arg : e \in { x \in entries : x.kind = "reduce" } }

\* The entries of a cell that are left after conflict resolution.
Resolved(G, a, entries) ==
  LET reds  == Reduces(entries)
      shift == { e \in entries : e.kind = "shift" }
      other == { e \in entries : e.kind = "accept" }
  IN  IF reds = {} THEN entries
      ELSE IF shift = {} THEN {Reduce(ResolveRR(reds))} \cup other
      ELSE LET r == ResolveSR(TermPrec(G, a), ProdPrec(G, ResolveRR(reds)))
           IN  (IF r.keep = "shift" THEN shift
                ELSE IF r.keep = "reduce" THEN {Reduce(ResolveRR(reds))}
                ELSE {}) \cup other

\* The conflicts of a cell, as recorded in the diagnostics log.
Conflicts(G, state, a, entries) ==
  LET reds  == Reduces(entries)
      shift == { e \in entries : e.kind = "shift" }
  IN  IF reds = {} THEN {} ELSE
      { [state |-> state, term |-> a, kind |-> "reduce/reduce",
         kept |-> Reduce(ResolveRR(reds)), dropped |-> Reduce(p), warn |-> TRUE]
          : p \in reds \ {ResolveRR(reds)} }
      \cup
      (IF shift # {} /\ reds # {}
       THEN LET r == ResolveSR(TermPrec(G, a), ProdPrec(G, ResolveRR(reds)))
            IN  { [state |-> state, term |-> a, kind |-> "shift/reduce",
                   kept |-> IF r.keep = "shift" THEN CHOOSE e \in shift : TRUE
                            ELSE IF r.keep = "reduce" THEN Reduce(ResolveRR(reds))
                            ELSE [kind |-> "error", arg |-> 0],
                   dropped |-> IF r.keep = "shift" THEN Reduce(ResolveRR(reds))
                               ELSE CHOOSE e \in shift : TRUE,
                   warn |-> r.warn] }
       ELSE {})

(***************************************************************************)
(* The tables                                                              *)
(***************************************************************************)
RECURSIVE SeqOfSet(_)
SeqOfSet(S) ==
  IF S = {} THEN << >>
  ELSE LET x == CHOOSE y \in S : TRUE IN << x >> \o SeqOfSet(S \ {x})

\* The number of the state with kernel K in the sequence of kernels, -1 when
\* K is empty (there is no such state).
StateOf(kernels, K) ==
  IF K = {} THEN -1 ELSE (CHOOSE i \in DOMAIN kernels : kernels[i] = K) - 1

TableFrom(G, facts, kernels) ==
  LET F == First(G)
      N == Nullable(G)
      closure == [i \in DOMAIN kernels |->
                    Closure1(G, F, N, { f.it : f \in { g \in facts : g.k = kernels[i] } })]
      goto == [i \in DOMAIN kernels |->
                 [X \in Nonterminals(G) \cup Terminals(G) |->
                    StateOf(kernels, Kernel(Advance(G, closure[i], X)))]]
      entries == [i \in DOMAIN kernels |->
                    [a \in Terminals(G) |-> Entries(G, closure[i], a, goto[i][a])]]
  IN  [goto |-> goto, entries |-> entries,
       action |-> [i \in DOMAIN kernels |->
                     [a \in Terminals(G) |-> Resolved(G, a, entries[i][a])]],
       conflicts |-> UNION { Conflicts(G, i - 1, a, entries[i][a])
                               : i \in DOMAIN kernels, a \in Terminals(G) }]

\* The LALR(1) tables of grammar G; state 0 is the start state.
LRTable(G) ==
  LET facts == Lalr(G)
  IN  TableFrom(G, facts,
                << StartKernel >> \o SeqOfSet({ f.k : f \in facts } \ {StartKernel}))

(***************************************************************************)
(* Optional and repeated groups in a rule                                  *)
(***************************************************************************)
\* The elements of a rule with groups: a symbol, [ ... ] or { ... }.  syms is
\* the sequence of the places of the group, each the sequence of the symbols
\* A|B|... accepted at that place.
Plain(X) == [kind |-> "sym", syms |-> << << X >> >>]
Optional(syms) == [kind |-> "optional", syms |-> syms]
Repeat(syms) == [kind |-> "repeat", syms |-> syms]

EbnfRule(name, elems, func) == [name |-> name, elems |-> elems, func |-> func]

\* The helper nonterminals made for element i of rule k.
HelperName(k, i, kind) == "_" \o ToString(k) \o "_" \o ToString(i) \o "_" \o kind

\* The right-hand sides a group stands for: one symbol of each place.
Choices(syms) ==
  { c \in [DOMAIN syms -> UNION { Range(syms[j]) : j \in DOMAIN syms }] :
      \A j \in DOMAIN syms : c[j] \in Range(syms[j]) }

RECURSIVE ItemRules(_, _, _)
ItemRules(name, choices, func) ==
  IF choices = {} THEN << >>
  ELSE LET c == CHOOSE x \in choices : TRUE
       IN  << Rule(name, c, func) >> \o ItemRules(name, choices \ {c}, func)

\* The productions of the helpers of a group.
GroupRules(k, i, e) ==
  IF e.kind = "repeat"
  THEN << Rule(HelperName(k, i, "repeat"), << HelperName(k, i, "items") >>, "_items"),
          Rule(HelperName(k, i, "repeat"), << >>, "_empty"),
          Rule(HelperName(k, i, "items"),
               << HelperName(k, i, "items"), HelperName(k, i, "item") >>, "_append"),
          Rule(HelperName(k, i, "items"), << HelperName(k, i, "item") >>, "_first") >>
       \o ItemRules(HelperName(k, i, "item"), Choices(e.syms), "_item")
  ELSE ItemRules(HelperName(k, i, "optional"), Choices(e.syms), "_item")
       \o << Rule(HelperName(k, i, "optional"), << >>, "_none") >>

RECURSIVE HelperRules(_, _, _)
HelperRules(k, elems, i) ==
  IF i > Len(elems) THEN << >>
  ELSE (IF elems[i].kind = "sym" THEN << >> ELSE GroupRules(k, i, elems[i]))
       \o HelperRules(k, elems, i + 1)

\* The named places of a rule, left to right: the symbols outside groups and
\* the places of the groups that accept one symbol.
RECURSIVE NamedPlaces(_, _)
NamedPlaces(elems, i) ==
  IF i > Len(elems) THEN << >>
  ELSE LET e == elems[i]
           places == { j \in DOMAIN e.syms : Len(e.syms[j]) = 1 }
       IN  [n \in 1..Cardinality(places) |->
              LET j == CHOOSE x \in places : Cardinality({ y \in places : y < x }) = n - 1
              IN  [sym |-> e.syms[j][1], at |-> i - 1,
                   sub |-> IF e.kind = "sym" THEN -1 ELSE j - 1,
                   kind |-> e.kind, width |-> Len(e.syms)]]
           \o NamedPlaces(elems, i + 1)

\* The production a rule with groups becomes, each group replaced by its
\* helper nonterminal.
MainRule(k, r) ==
  LET places == NamedPlaces(r.elems, 1)
      flat   == [n \in DOMAIN places |-> places[n].sym]
  IN  [name |-> r.name,
       rhs |-> [i \in DOMAIN r.elems |->
                  IF r.elems[i].kind = "sym" THEN r.elems[i].syms[1][1]
                  ELSE HelperName(k, i, r.elems[i].kind)],
       prec |-> "", func |-> r.func,
       namemap |-> [n \in DOMAIN places |->
                      [name |-> AttrName(flat, n), at |-> places[n].at,
                       sub |-> places[n].sub, kind |-> places[n].kind,
                       width |-> places[n].width]]]

\* The productions of a sequence of rules with groups.
RECURSIVE Expand(_, _)
Expand(rules, k) ==
  IF k > Len(rules) THEN << >>
  ELSE << MainRule(k, rules[k]) >> \o HelperRules(k, rules[k].elems, 1)
       \o Expand(rules, k + 1)

(***************************************************************************)
(* Semantic values and the value grouping handed to an action              *)
(***************************************************************************)
IntV(n) == [t |-> "int", n |-> n, s |-> "", items |-> << >>]
StrV(str) == [t |-> "str", n |-> 0, s |-> str, items |-> << >>]
NoneV == [t |-> "none", n |-> 0, s |-> "", items |-> << >>]
ListV(items) == [t |-> "list", n |-> 0, s |-> "", items |-> items]
TupleV(items) == [t |-> "tuple", n |-> 0, s |-> "", items |-> items]

\* A token or a nonterminal on the symbol stack.
Symbol(type, value) == [type |-> type, value |-> value]

\* No lookahead.
NoSymbol == Symbol("", NoneV)

\* The grouping p handed to the action of production prod over the symbols
\* popped for it.
YaccProduction(prod, slice) ==
  [namemap |-> prod.namemap, values |-> [i \in DOMAIN slice |-> slice[i].value]]

\* What stands for the IndexError p[n] raises when there is no place n.
IndexError == [t |-> "IndexError", n |-> 0, s |-> "", items |-> << >>]

\* PIndex with the places counted from 1.
PIndexFromOne(p, n) == IF n \in DOMAIN p.values THEN p.values[n] ELSE IndexError

\* p[n]: the places are counted from 0.
PIndex(p, n) == IF n + 1 \in DOMAIN p.values THEN p.values[n + 1] ELSE IndexError

\* Place sub of the value of one pass of a group of width places.
Component(v, sub, width) == IF width = 1 THEN v ELSE v.items[sub + 1]

\* p.name
PAttr(p, name) ==
  LET e == p.namemap[CHOOSE k \in DOMAIN p.namemap : p.namemap[k].name = name]
      v == p.values[e.at + 1]
  IN  IF e.kind = "sym" THEN v
      ELSE IF e.kind = "repeat"
      THEN ListV([i \in DOMAIN v.items |-> Component(v.items[i], e.sub, e.width)])
      ELSE IF v = NoneV THEN NoneV ELSE Component(v, e.sub, e.width)

HasAttr(p, name) == \E k \in DOMAIN p.namemap : p.namemap[k].name = name

(***************************************************************************)
(* The actions of the parser classes                                       *)
(***************************************************************************)
\* One pass of  for op, rval in p[1]  of the actions of expr and term.
Apply(lval, op, rval) ==
  IF op = "+" THEN lval + rval
  ELSE IF op = "-" THEN lval - rval
  ELSE IF op = "*" THEN lval * rval
  ELSE IF op = "/" THEN lval \div rval
  ELSE lval

RECURSIVE FoldOps(_, _, _)
FoldOps(lval, pairs, k) ==
  IF k > Len(pairs) THEN lval
  ELSE FoldOps(Apply(lval, pairs[k].items[1].s, pairs[k].items[2].n), pairs, k + 1)

\* What the action with body func does with the grouping p: the value it
\* returns, and self.names and self.errors after it (nm and errs before).
Action(func, p, nm, errs) ==
  LET ret(v) == [value |-> v, names |-> nm, errors |-> errs]
  IN  CASE func = "assign" ->
             [value |-> NoneV, errors |-> errs,
              names |-> (PAttr(p, "ID").s :> PAttr(p, "expr").n) @@ nm]
        [] func = "expr" -> ret(PAttr(p, "expr"))
        [] func = "add" -> ret(IntV(PAttr(p, "expr0").n + PAttr(p, "expr1").n))
        [] func = "sub" -> ret(IntV(PAttr(p, "expr0").n - PAttr(p, "expr1").n))
        [] func = "mul" -> ret(IntV(PAttr(p, "expr0").n * PAttr(p, "expr1").n))
        [] func = "div" -> ret(IntV(PAttr(p, "expr0").n \div PAttr(p, "expr1").n))
        [] func = "neg" -> ret(IntV(0 - PAttr(p, "expr").n))
        [] func = "number" -> ret(PAttr(p, "NUMBER"))
        [] func = "lookup" ->
             IF PAttr(p, "ID").s \in DOMAIN nm THEN ret(IntV(nm[PAttr(p, "ID").s]))
             ELSE [value |-> IntV(0), names |-> nm,
                   errors |-> Append(errs, Symbol("undefined", PAttr(p, "ID")))]
        [] func = "pair" -> ret(TupleV(<< PAttr(p, "expr0"), PAttr(p, "expr1") >>))
        [] func = "call" -> ret(TupleV(<< PAttr(p, "ID"), PAttr(p, "arglist") >>))
        [] func = "arglist" ->
             ret(ListV(<< PAttr(p, "expr0") >> \o PAttr(p, "expr1").items))
        [] func = "fold_term" ->
             ret(IntV(FoldOps(PAttr(p, "term0").n, PIndex(p, 1).items, 1)))
        [] func = "fold_factor" ->
             ret(IntV(FoldOps(PAttr(p, "factor0").n, PIndex(p, 1).items, 1)))
        [] func = "neg_factor" -> ret(IntV(0 - PAttr(p, "factor").n))
        [] func = "int" -> ret(IntV(PAttr(p, "NUMBER").n))
        [] func = "lookup_print" ->
             ret(IntV(IF PAttr(p, "ID").s \in DOMAIN nm THEN nm[PAttr(p, "ID").s] ELSE 0))
        [] func = "first" -> ret(PIndex(p, 0))
        [] func = "_items" -> ret(PIndex(p, 0))
        [] func = "_empty" -> ret(ListV(<< >>))
        [] func = "_append" -> ret(ListV(Append(PIndex(p, 0).items, PIndex(p, 1))))
        [] func = "_first" -> ret(ListV(<< PIndex(p, 0) >>))
        [] func = "_item" ->
             ret(IF Len(p.values) = 1 THEN p.values[1] ELSE TupleV(p.values))
        [] OTHER -> ret(NoneV)

(***************************************************************************)
(* Parser classes                                                          *)
(***************************************************************************)
\* CalcPrecedence with the level of * and / declared first.
CalcPrecedenceTimesFirst ==
  << Level("left", {"TIMES", "DIVIDE"}), Level("left", {"PLUS", "MINUS"}),
     Level("right", {"UMINUS"}) >>

\* precedence of CalcParser
CalcPrecedence ==
  << Level("left", {"PLUS", "MINUS"}), Level("left", {"TIMES", "DIVIDE"}),
     Level("right", {"UMINUS"}) >>

\* CalcRules with the action of  statement : expr  returning nothing.
CalcRulesStatementPass ==
  << Rule("statement", <<"ID", "ASSIGN", "expr">>, "assign"),
     Rule("statement", <<"expr">>, "pass"),
     Rule("expr", <<"expr", "PLUS", "expr">>, "add"),
     Rule("expr", <<"expr", "MINUS", "expr">>, "sub"),
     Rule("expr", <<"expr", "TIMES", "expr">>, "mul"),
     Rule("expr", <<"expr", "DIVIDE", "expr">>, "div"),
     Production("expr", <<"MINUS", "expr">>, "UMINUS", "neg"),
     Rule("expr", <<"(", "expr", ")">>, "expr"),
     Rule("expr", <<"NUMBER">>, "number"),
     Rule("expr", <<"ID">>, "lookup") >>

CalcRules ==
  << Rule("statement", <<"ID", "ASSIGN", "expr">>, "assign"),
     Rule("statement", <<"expr">>, "expr"),
     Rule("expr", <<"expr", "PLUS", "expr">>, "add"),
     Rule("expr", <<"expr", "MINUS", "expr">>, "sub"),
     Rule("expr", <<"expr", "TIMES", "expr">>, "mul"),
     Rule("expr", <<"expr", "DIVIDE", "expr">>, "div"),
     Production("expr", <<"MINUS", "expr">>, "UMINUS", "neg"),
     Rule("expr", <<"(", "expr", ")">>, "expr"),
     Rule("expr", <<"NUMBER">>, "number"),
     Rule("expr", <<"ID">>, "lookup") >>

CalcGrammar ==
  Grammar("Calc", {"ID", "NUMBER", "PLUS", "MINUS", "TIMES", "DIVIDE", "ASSIGN"},
          CalcPrecedence, CalcRules)

\* expr + expr with + declared left, right or nonassoc.
AssocGrammar(assoc) ==
  Grammar(assoc, {"NUMBER", "PLUS"}, << Level(assoc, {"PLUS"}) >>,
          << Rule("expr", <<"expr", "PLUS", "expr">>, "pair"),
             Rule("expr", <<"NUMBER">>, "number") >>)

\* One operator of each associativity and one with no precedence.
PrecGrammar ==
  Grammar("Prec", {"NUMBER", "PLUS", "POW", "LT", "QUEST"},
          << Level("nonassoc", {"LT"}), Level("left", {"PLUS"}), Level("right", {"POW"}) >>,
          << Rule("expr", <<"expr", "PLUS", "expr">>, "pair"),
             Rule("expr", <<"expr", "POW", "expr">>, "pair"),
             Rule("expr", <<"expr", "LT", "expr">>, "pair"),
             Rule("expr", <<"expr", "QUEST", "expr">>, "pair"),
             Rule("expr", <<"NUMBER">>, "number") >>)

\* IfElseParser: the dangling else, with no precedence declared.
IfElseGrammar ==
  Grammar("IfElse", {"IDENTIFIER", "IF", "ELSE", "SEMI", "LPAREN", "RPAREN"}, << >>,
          << Rule("prog", <<"statement">>, "pass"),
             Rule("statement", <<"if_statement">>, "pass"),
             Rule("if_statement", <<"IF", "LPAREN", "expr", "RPAREN", "statement">>, "pass"),
             Rule("if_statement",
                  <<"IF", "LPAREN", "expr", "RPAREN", "statement", "ELSE", "statement">>,
                  "pass"),
             Rule("statement", <<"expr", "SEMI">>, "pass"),
             Rule("expr", <<"IDENTIFIER">>, "pass") >>)

\* DeclExprGrammar with the rules of declarator declared before those of expr.
DeclExprGrammarDeclaratorFirst ==
  Grammar("DeclExpr", {"IDENTIFIER", "TYPENAME"}, << >>,
          << Rule("prog", <<"prog", "stmt">>, "pass"),
             Rule("prog", << >>, "pass"),
             Rule("stmt", <<"expr", ";">>, "pass"),
             Rule("stmt", <<"decl">>, "pass"),
             Rule("declarator", <<"IDENTIFIER">>, "pass"),
             Rule("declarator", <<"(", "declarator", ")">>, "pass"),
             Rule("expr", <<"IDENTIFIER">>, "pass"),
             Rule("expr", <<"TYPENAME", "(", "expr", ")">>, "pass"),
             Rule("expr", <<"expr", "+", "expr">>, "pass"),
             Rule("expr", <<"expr", "=", "expr">>, "pass"),
             Rule("decl", <<"TYPENAME", "declarator", ";">>, "pass"),
             Rule("decl", <<"TYPENAME", "declarator", "=", "expr", ";">>, "pass") >>)

\* DeclExprParser: declarations and expressions that begin alike.
DeclExprGrammar ==
  Grammar("DeclExpr", {"IDENTIFIER", "TYPENAME"}, << >>,
          << Rule("prog", <<"prog", "stmt">>, "pass"),
             Rule("prog", << >>, "pass"),
             Rule("stmt", <<"expr", ";">>, "pass"),
             Rule("stmt", <<"decl">>, "pass"),
             Rule("expr", <<"IDENTIFIER">>, "pass"),
             Rule("expr", <<"TYPENAME", "(", "expr", ")">>, "pass"),
             Rule("expr", <<"expr", "+", "expr">>, "pass"),
             Rule("expr", <<"expr", "=", "expr">>, "pass"),
             Rule("decl", <<"TYPENAME", "declarator", ";">>, "pass"),
             Rule("decl", <<"TYPENAME", "declarator", "=", "expr", ";">>, "pass"),
             Rule("declarator", <<"IDENTIFIER">>, "pass"),
             Rule("declarator", <<"(", "declarator", ")">>, "pass") >>)

\* ArglistRule with the group optional: expr [ COMMA expr ]
ArglistRuleOptional ==
  EbnfRule("arglist", << Plain("expr"), Optional(<< <<"COMMA">>, <<"expr">> >>) >>, "arglist")

\* expr { COMMA expr }
ArglistRule ==
  EbnfRule("arglist", << Plain("expr"), Repeat(<< <<"COMMA">>, <<"expr">> >>) >>, "arglist")

\* The CalcParser of test_ebnf.py, its rules written with groups.
EbnfRules ==
  << EbnfRule("statement", << Plain("ID"), Plain("ASSIGN"), Plain("expr") >>, "assign"),
     EbnfRule("statement",
              << Plain("ID"), Plain("("), Optional(<< <<"arglist">> >>), Plain(")") >>,
              "call"),
     ArglistRule,
     EbnfRule("statement", << Plain("expr") >>, "expr"),
     EbnfRule("expr",
              << Plain("term"), Repeat(<< <<"PLUS", "MINUS">>, <<"term">> >>) >>,
              "fold_term"),
     EbnfRule("term",
              << Plain("factor"), Repeat(<< <<"TIMES", "DIVIDE">>, <<"factor">> >>) >>,
              "fold_factor"),
     EbnfRule("factor", << Plain("MINUS"), Plain("factor") >>, "neg_factor"),
     EbnfRule("factor", << Plain("("), Plain("expr"), Plain(")") >>, "expr"),
     EbnfRule("factor", << Plain("NUMBER") >>, "int"),
     EbnfRule("factor", << Plain("ID") >>, "lookup_print") >>

EbnfGrammar ==
  Grammar("Ebnf", {"ID", "NUMBER", "PLUS", "MINUS", "TIMES", "DIVIDE", "ASSIGN", "COMMA"},
          << >>, Expand(EbnfRules, 1))

\* A grammar with an error production: a statement that does not parse is
\* skipped up to its semicolon.
RecoverGrammar ==
  Grammar("Recover", {"NUMBER", "SEMI", "PLUS"}, << >>,
          << Rule("prog", <<"prog", "stmt">>, "pass"),
             Rule("prog", <<"stmt">>, "pass"),
             Rule("stmt", <<"NUMBER", "SEMI">>, "first"),
             Rule("stmt", <<"error", "SEMI">>, "pass") >>)

Grammars ==
  { CalcGrammar, AssocGrammar("left"), AssocGrammar("right"), AssocGrammar("nonassoc"),
    PrecGrammar, IfElseGrammar, DeclExprGrammar, EbnfGrammar, RecoverGrammar }

(***************************************************************************)
(* Token streams handed to parse                                           *)
(***************************************************************************)
\* The longest token stream that is enumerated.
MaxTokens == 3

Streams(alphabet) == UNION { [1..n -> alphabet] : n \in 0..MaxTokens }

Tok(type, str) == Symbol(type, StrV(str))
Num(n) == Symbol("NUMBER", IntV(n))
Id(str) == Symbol("ID", StrV(str))

\* a = 3 + 4 * (5 + 6)
AssignInput ==
  << Id("a"), Tok("ASSIGN", "="), Num(3), Tok("PLUS", "+"), Num(4), Tok("TIMES", "*"),
     Tok("(", "("), Num(5), Tok("PLUS", "+"), Num(6), Tok(")", ")") >>

\* 3 + 4 * (5 + 6)
ExprInput ==
  << Num(3), Tok("PLUS", "+"), Num(4), Tok("TIMES", "*"), Tok("(", "("), Num(5), Tok("PLUS", "+"), Num(6),
     Tok(")", ")") >>

\* a 123
ErrorInputCut == << Id("a"), Num(123) >>

\* a = 4 + 5
ErrorInputAssigned == << Id("a"), Tok("ASSIGN", "="), Num(4), Tok("PLUS", "+"), Num(5) >>

\* a 123 4 + 5
ErrorInput == << Id("a"), Num(123), Num(4), Tok("PLUS", "+"), Num(5) >>

\* 1 + 2 + 3
SumInput == << Num(1), Tok("PLUS", "+"), Num(2), Tok("PLUS", "+"), Num(3) >>

\* if (x) if (y) z; else w;
IfElseInput ==
  << Tok("IF", "if"), Tok("LPAREN", "("), Tok("IDENTIFIER", "x"), Tok("RPAREN", ")"),
     Tok("IF", "if"), Tok("LPAREN", "("), Tok("IDENTIFIER", "x"), Tok("RPAREN", ")"),
     Tok("IDENTIFIER", "x"), Tok("SEMI", ";"), Tok("ELSE", "else"), Tok("IDENTIFIER", "x"), Tok("SEMI", ";") >>

\* a()  a(2+3)  a(2+3, 4+5)
CallInput(args) == << Id("a"), Tok("(", "(") >> \o args \o << Tok(")", ")") >>
OneArg == << Num(2), Tok("PLUS", "+"), Num(3) >>
TwoArgs == OneArg \o << Tok("COMMA", ","), Num(4), Tok("PLUS", "+"), Num(5) >>

\* 1 + 2 - 3
SumDiffInput == << Num(1), Tok("PLUS", "+"), Num(2), Tok("MINUS", "-"), Num(3) >>

Inputs(name) ==
  CASE name = "Calc" ->
         { AssignInput, ExprInput, ErrorInput }
         \cup Streams({ Id("a"), Num(2), Tok("PLUS", "+"), Tok("TIMES", "*"), Tok("ASSIGN", "=") })
    [] name \in {"left", "right", "nonassoc"} ->
         { SumInput } \cup Streams({ Num(2), Tok("PLUS", "+") })
    [] name = "Prec" ->
         { SumInput }
         \cup Streams({ Num(2), Tok("PLUS", "+"), Tok("POW", "^"), Tok("LT", "<"),
                        Tok("QUEST", "?") })
    [] name = "IfElse" ->
         { IfElseInput }
         \cup Streams({ Tok("IF", "if"), Tok("LPAREN", "("), Tok("IDENTIFIER", "x"), Tok("SEMI", ";") })
    [] name = "DeclExpr" ->
         Streams({ Tok("IDENTIFIER", "x"), Tok("TYPENAME", "T"), Tok(";", ";"), Tok("+", "+"), Tok("(", "(") })
    [] name = "Ebnf" ->
         { CallInput(<< >>), CallInput(OneArg), CallInput(TwoArgs), SumDiffInput, ErrorInput }
         \cup Streams({ Id("a"), Num(2), Tok("PLUS", "+"), Tok("(", "("), Tok(")", ")") })
    [] OTHER -> Streams({ Num(2), Tok("SEMI", ";"), Tok("PLUS", "+") })

(***************************************************************************)
(* The parse driver                                                        *)
(***************************************************************************)
\* The number of tokens that must be shifted after a syntax error before the
\* next one is reported.
ERROR_COUNT == 3

EndSymbol == Symbol(EndMarker, NoneV)

\* What errors holds for a call of the error hook at the end of the input.
NoToken == Symbol("None", NoneV)

\* The grouping of a step that is no reduction.
NoGrouping == [namemap |-> << >>, values |-> << >>]

PStep(op, state, la, act, hook) ==
  [op |-> op, state |-> state, la |-> la, act |-> act, hook |-> hook, p |-> NoGrouping]

LexerIdle ==
  /\ cls = << >>
  /\ text = << >>
  /\ index = 0
  /\ lineno = 0
  /\ lex = << >>
  /\ self_text = << >>
  /\ self_index = 0
  /\ self_lineno = 0
  /\ pc = "idle"
  /\ out = << >>
  /\ calls = << >>
  /\ last = << >>
  /\ raised = << >>
  /\ state_stack = << >>
  /\ state_log = << >>

\* The state after  parser = cls()  and the start of parser.parse(tokens).
ParserInit ==
  /\ LexerIdle
  /\ PairIdle
  /\ BuildIdle
  /\ grammar \in Grammars
  /\ table = LRTable(grammar)
  /\ toks \in Inputs(grammar.name)
  /\ taken = 0
  /\ statestack = << 0 >>
  /\ symstack = << EndSymbol >>
  /\ lookahead = NoSymbol
  /\ lookaheadstack = << >>
  /\ errorcount = 0
  /\ errors = << >>
  /\ names = << >>
  /\ result = NoneV
  /\ ppc = "parse"
  /\ plast = PStep("start", 0, NoSymbol, {}, FALSE)

\* The state on top of the stack.
State == statestack[Len(statestack)]

\* The lookahead of this pass: the one held, else the one last pushed back,
\* else the next token, else the end marker.
LA ==
  IF lookahead # NoSymbol THEN lookahead
  ELSE IF lookaheadstack # << >> THEN lookaheadstack[Len(lookaheadstack)]
  ELSE IF taken < Len(toks) THEN toks[taken + 1]
  ELSE EndSymbol

\* lookaheadstack and the number of tokens taken once the lookahead is read.
StackRead ==
  IF lookahead = NoSymbol /\ lookaheadstack # << >>
  THEN SubSeq(lookaheadstack, 1, Len(lookaheadstack) - 1) ELSE lookaheadstack

TakenRead ==
  IF lookahead = NoSymbol /\ lookaheadstack = << >> /\ taken < Len(toks)
  THEN taken + 1 ELSE taken

\* ACTION[state, lookahead]
Act == table.action[State + 1][LA.type]

\* errors after the error hook is called when no error is being recovered from.
Reported == IF errorcount = 0 THEN Append(errors, LA) ELSE errors

ParseShift ==
  /\ ppc = "parse"
  /\ \E e \in Act :
       /\ e.kind = "shift"
       /\ statestack' = Append(statestack, e.arg)
  /\ symstack' = Append(symstack, LA)
  /\ lookahead' = NoSymbol
  /\ lookaheadstack' = StackRead
  /\ taken' = TakenRead
  /\ errorcount' = IF errorcount > 0 THEN errorcount - 1 ELSE 0
  /\ plast' = PStep("shift", State, LA, Act, FALSE)
  /\ UNCHANGED << grammar, table, toks, errors, names, result, ppc >>
  /\ UNCHANGED <<lexvars, pairvars, buildvars>>

\* The symbols popped for a production of length plen, and what is left.
Slice(plen) == SubSeq(symstack, Len(symstack) - plen + 1, Len(symstack))
Reduced(p) ==
  Action(Prod(grammar, p).func, YaccProduction(Prod(grammar, p), Slice(Len(Prod(grammar, p).rhs))),
         names, errors)

ParseReduce ==
  /\ ppc = "parse"
  /\ \E e \in Act :
       /\ e.kind = "reduce"
       /\ symstack' =
            Append(SubSeq(symstack, 1, Len(symstack) - Len(Prod(grammar, e.arg).rhs)),
                   Symbol(Prod(grammar, e.arg).name, Reduced(e.arg).value))
       /\ statestack' =
            Append(SubSeq(statestack, 1, Len(statestack) - Len(Prod(grammar, e.arg).rhs)),
                   table.goto[statestack[Len(statestack) - Len(Prod(grammar, e.arg).rhs)] + 1]
                             [Prod(grammar, e.arg).name])
       /\ names' = Reduced(e.arg).names
       /\ errors' = Reduced(e.arg).errors
  /\ lookahead' = LA
  /\ lookaheadstack' = StackRead
  /\ taken' = TakenRead
  /\ plast' = [PStep("reduce", State, LA, Act, FALSE) EXCEPT
                 !.p = YaccProduction(Prod(grammar, (CHOOSE e \in Act : TRUE).arg),
                                      Slice(Len(Prod(grammar, (CHOOSE e \in Act : TRUE).arg).rhs)))]
  /\ UNCHANGED << grammar, table, toks, errorcount, result, ppc >>
  /\ UNCHANGED <<lexvars, pairvars, buildvars>>

ParseAccept ==
  /\ ppc = "parse"
  /\ \E e \in Act : e.kind = "accept"
  /\ result' = symstack[Len(symstack)].value
  /\ ppc' = "done"
  /\ lookahead' = LA
  /\ lookaheadstack' = StackRead
  /\ taken' = TakenRead
  /\ plast' = PStep("accept", State, LA, Act, FALSE)
  /\ UNCHANGED << grammar, table, toks, statestack, symstack, errorcount, errors, names >>
  /\ UNCHANGED <<lexvars, pairvars, buildvars>>

\* No entry at the end of the input while no error is being recovered from:
\* the hook is called with no token and parse returns nothing.
ParseErrorAtEnd ==
  /\ ppc = "parse"
  /\ Act = {}
  /\ errorcount = 0
  /\ LA.type = EndMarker
  /\ errors' = Append(errors, NoToken)
  /\ errorcount' = ERROR_COUNT
  /\ result' = NoneV
  /\ ppc' = "done"
  /\ lookahead' = LA
  /\ lookaheadstack' = StackRead
  /\ taken' = TakenRead
  /\ plast' = PStep("eof", State, LA, Act, TRUE)
  /\ UNCHANGED << grammar, table, toks, statestack, symstack, names >>
  /\ UNCHANGED <<lexvars, pairvars, buildvars>>

\* No entry with only the start state on the stack: the lookahead is dropped,
\* whatever was pushed back with it, and the parse goes on from the start state.
ParseErrorRestart ==
  /\ ppc = "parse"
  /\ Act = {}
  /\ LA.type # EndMarker
  /\ Len(statestack) <= 1
  /\ errors' = Reported
  /\ errorcount' = ERROR_COUNT
  /\ lookahead' = NoSymbol
  /\ lookaheadstack' = << >>
  /\ taken' = TakenRead
  /\ plast' = PStep("restart", State, LA, Act, errorcount = 0)
  /\ UNCHANGED << grammar, table, toks, statestack, symstack, names, result, ppc >>
  /\ UNCHANGED <<lexvars, pairvars, buildvars>>

\* No entry at the end of the input during recovery: parse returns nothing.
ParseErrorFail ==
  /\ ppc = "parse"
  /\ Act = {}
  /\ LA.type = EndMarker
  /\ errorcount > 0
  /\ errorcount' = ERROR_COUNT
  /\ result' = NoneV
  /\ ppc' = "done"
  /\ lookahead' = LA
  /\ lookaheadstack' = StackRead
  /\ taken' = TakenRead
  /\ plast' = PStep("fail", State, LA, Act, FALSE)
  /\ UNCHANGED << grammar, table, toks, statestack, symstack, errors, names >>
  /\ UNCHANGED <<lexvars, pairvars, buildvars>>

\* No entry for a token while error is on top of the stack: the token is
\* dropped.
ParseErrorDiscard ==
  /\ ppc = "parse"
  /\ Act = {}
  /\ LA.type \notin {EndMarker, "error"}
  /\ Len(statestack) > 1
  /\ symstack[Len(symstack)].type = "error"
  /\ errors' = Reported
  /\ errorcount' = ERROR_COUNT
  /\ lookahead' = NoSymbol
  /\ lookaheadstack' = StackRead
  /\ taken' = TakenRead
  /\ plast' = PStep("discard", State, LA, Act, errorcount = 0)
  /\ UNCHANGED << grammar, table, toks, statestack, symstack, names, result, ppc >>
  /\ UNCHANGED <<lexvars, pairvars, buildvars>>

\* No entry for a token otherwise: the token is pushed back and error becomes
\* the lookahead.
ParseErrorSymbol ==
  /\ ppc = "parse"
  /\ Act = {}
  /\ LA.type \notin {EndMarker, "error"}
  /\ Len(statestack) > 1
  /\ symstack[Len(symstack)].type # "error"
  /\ errors' = Reported
  /\ errorcount' = ERROR_COUNT
  /\ lookahead' = Symbol("error", NoneV)
  /\ lookaheadstack' = Append(StackRead, LA)
  /\ taken' = TakenRead
  /\ plast' = PStep("error", State, LA, Act, errorcount = 0)
  /\ UNCHANGED << grammar, table, toks, statestack, symstack, names, result, ppc >>
  /\ UNCHANGED <<lexvars, pairvars, buildvars>>

\* No entry for error: the top of the stack is popped.
ParseErrorPop ==
  /\ ppc = "parse"
  /\ Act = {}
  /\ LA.type = "error"
  /\ Len(statestack) > 1
  /\ symstack' = SubSeq(symstack, 1, Len(symstack) - 1)
  /\ statestack' = SubSeq(statestack, 1, Len(statestack) - 1)
  /\ errors' = Reported
  /\ errorcount' = ERROR_COUNT
  /\ lookahead' = LA
  /\ lookaheadstack' = StackRead
  /\ taken' = TakenRead
  /\ plast' = PStep("pop", State, LA, Act, errorcount = 0)
  /\ UNCHANGED << grammar, table, toks, names, result, ppc >>
  /\ UNCHANGED <<lexvars, pairvars, buildvars>>

ParserNext ==
  \/ ParseShift
  \/ ParseReduce
  \/ ParseAccept
  \/ ParseErrorAtEnd
  \/ ParseErrorRestart
  \/ ParseErrorFail
  \/ ParseErrorDiscard
  \/ ParseErrorSymbol
  \/ ParseErrorPop

ParserSpec == ParserInit /\ [][ParserNext]_vars

\* The calls of the error hook so far, in order.
HookCalls == SelectSeq(errors, LAMBDA e : e.type # "undefined")

(***************************************************************************)
(* Claims about the tables and the driver                                  *)
(***************************************************************************)
ShiftsOf(entries) == { e \in entries : e.kind = "shift" }

\* The cells of the table at which a shift and a reduce were entered.
ShiftReduceCells ==
  { c \in (DOMAIN table.entries) \X Terminals(grammar) :
      ShiftsOf(table.entries[c[1]][c[2]]) # {} /\ Reduces(table.entries[c[1]][c[2]]) # {} }

\* The reduce production of a cell: the one of the lowest index.
CellReduce(c) == ResolveRR(Reduces(table.entries[c[1]][c[2]]))

Warned(c, kind) ==
  \E w \in table.conflicts :
    w.state = c[1] - 1 /\ w.term = c[2] /\ w.kind = kind /\ w.warn

LeftGrouped == TupleV(<< TupleV(<< IntV(1), IntV(2) >>), IntV(3) >>)
RightGrouped == TupleV(<< IntV(1), TupleV(<< IntV(2), IntV(3) >>) >>)

\* C14: at a cell with a shift/reduce conflict where the terminal a and the
\* reduce production p both have a precedence, the reduce is kept when the
\* level of p is higher, the shift when the level of a is higher, and at equal
\* levels left keeps the reduce, right keeps the shift and nonassoc leaves the
\* cell empty; when either has none the shift is kept and a warning recorded.
\* A level declared later binds tighter: with the precedence of CalcParser
\* 3 + 4 * (5 + 6) evaluates to 47, and 1 + 2 + 3 groups to the left under
\* left + and to the right under right +.
C14_PrecedenceResolves ==
  /\ \A c \in ShiftReduceCells :
       LET tp == TermPrec(grammar, c[2])
           pp == ProdPrec(grammar, CellReduce(c))
           cell == table.action[c[1]][c[2]]
           shift == ShiftsOf(table.entries[c[1]][c[2]])
       IN  IF tp.level = 0 \/ pp.level = 0
           THEN cell = shift /\ Warned(c, "shift/reduce")
           ELSE IF pp.level > tp.level THEN cell = {Reduce(CellReduce(c))}
           ELSE IF tp.level > pp.level THEN cell = shift
           ELSE IF tp.assoc = "left" THEN cell = {Reduce(CellReduce(c))}
           ELSE IF tp.assoc = "right" THEN cell = shift
           ELSE tp.assoc = "nonassoc" /\ cell = {}
  /\ grammar.name = "Calc" =>
       TermPrec(grammar, "PLUS").level < TermPrec(grammar, "TIMES").level
  /\ (ppc = "done" /\ grammar.name = "Calc" /\ toks = ExprInput) => result = IntV(47)
  /\ (ppc = "done" /\ grammar.name = "Calc" /\ toks = AssignInput) =>
       result = NoneV /\ names = ("a" :> 47)
  /\ (ppc = "done" /\ grammar.name \in {"left", "Prec"} /\ toks = SumInput) =>
       result = LeftGrouped
  /\ (ppc = "done" /\ grammar.name = "right" /\ toks = SumInput) => result = RightGrouped
  /\ (ppc = "done" /\ grammar.name = "nonassoc" /\ toks = SumInput) =>
       HookCalls = << Tok("PLUS", "+") >>

\* C14 witness: 1 + 2 + 3 has been parsed and grouped to the left with tables
\* that have a conflict of each kind: one where the reduce has the higher
\* level, one where the terminal has, one decided by left, one by right, one
\* emptied by nonassoc and one with no precedence.
C14_Witness ==
  /\ ppc = "done"
  /\ grammar.name = "Prec"
  /\ toks = SumInput
  /\ result = LeftGrouped
  /\ \E c \in ShiftReduceCells :
       ProdPrec(grammar, CellReduce(c)).level > TermPrec(grammar, c[2]).level
       /\ TermPrec(grammar, c[2]).level > 0
       /\ table.action[c[1]][c[2]] = {Reduce(CellReduce(c))}
  /\ \E c \in ShiftReduceCells :
       ProdPrec(grammar, CellReduce(c)).level < TermPrec(grammar, c[2]).level
       /\ ProdPrec(grammar, CellReduce(c)).level > 0
       /\ table.action[c[1]][c[2]] = ShiftsOf(table.entries[c[1]][c[2]])
  /\ \E c \in ShiftReduceCells :
       c[2] = "PLUS" /\ Prod(grammar, CellReduce(c)).rhs[2] = "PLUS"
       /\ table.action[c[1]][c[2]] = {Reduce(CellReduce(c))}
  /\ \E c \in ShiftReduceCells :
       c[2] = "POW" /\ Prod(grammar, CellReduce(c)).rhs[2] = "POW"
       /\ table.action[c[1]][c[2]] = ShiftsOf(table.entries[c[1]][c[2]])
  /\ \E c \in ShiftReduceCells :
       c[2] = "LT" /\ Prod(grammar, CellReduce(c)).rhs[2] = "LT"
       /\ table.action[c[1]][c[2]] = {}
  /\ \E c \in ShiftReduceCells :
       c[2] = "QUEST" /\ Warned(c, "shift/reduce")
       /\ table.action[c[1]][c[2]] = ShiftsOf(table.entries[c[1]][c[2]])

Cells == (DOMAIN table.entries) \X Terminals(grammar)

\* The cells at which more than one entry was entered.
ConflictCells == { c \in Cells : Cardinality(table.entries[c[1]][c[2]]) > 1 }

\* The cells at which reduces by several productions and no shift were entered.
ReduceReduceCells ==
  { c \in Cells : ShiftsOf(table.entries[c[1]][c[2]]) = {}
                  /\ Cardinality(Reduces(table.entries[c[1]][c[2]])) > 1 }

Logged(c) == \E w \in table.conflicts : w.state = c[1] - 1 /\ w.term = c[2]

\* Precedence has a say at a cell: the terminal and the reduce production both
\* have a level.
PrecedenceDecides(c) ==
  /\ TermPrec(grammar, c[2]).level > 0
  /\ ProdPrec(grammar, CellReduce(c)).level > 0

NonassocTie(c) ==
  /\ PrecedenceDecides(c)
  /\ TermPrec(grammar, c[2]).level = ProdPrec(grammar, CellReduce(c)).level
  /\ TermPrec(grammar, c[2]).assoc = "nonassoc"

\* C15: every cell of ACTION holds at most one entry; a cell where several
\* were entered keeps exactly one of them, or none when a nonassoc terminal
\* ties with the production; the shift is kept when precedence does not
\* decide; of several reduces the production of the lowest index is kept (the
\* reduce by expr -> IDENTIFIER, declared before declarator -> IDENTIFIER, in
\* DeclExprParser); and every such cell is in the log of conflicts.
C15_AtMostOneEntry ==
  /\ \A c \in Cells : Cardinality(table.action[c[1]][c[2]]) <= 1
  /\ \A c \in ConflictCells :
       /\ table.action[c[1]][c[2]] \subseteq table.entries[c[1]][c[2]]
       /\ Cardinality(table.action[c[1]][c[2]]) = IF c \in ShiftReduceCells /\ NonassocTie(c)
                                                   THEN 0 ELSE 1
       /\ Logged(c)
  /\ \A c \in ShiftReduceCells :
       ~PrecedenceDecides(c) =>
         table.action[c[1]][c[2]] = ShiftsOf(table.entries[c[1]][c[2]])
  /\ \A c \in ReduceReduceCells :
       /\ table.action[c[1]][c[2]] = {Reduce(CellReduce(c))}
       /\ \A p \in Reduces(table.entries[c[1]][c[2]]) : CellReduce(c) <= p
       /\ \A p \in Reduces(table.entries[c[1]][c[2]]) \ {CellReduce(c)} :
            \E w \in table.conflicts :
              /\ w.state = c[1] - 1 /\ w.term = c[2] /\ w.kind = "reduce/reduce"
              /\ w.kept = Reduce(CellReduce(c)) /\ w.dropped = Reduce(p)
  /\ grammar.name = "DeclExpr" =>
       \A c \in ReduceReduceCells :
         { Prod(grammar, p).name : p \in Reduces(table.entries[c[1]][c[2]]) }
             = {"expr", "declarator"}
           => Prod(grammar, CellReduce(c)).name = "expr"

\* C15 witness: the tables of DeclExprParser are built and a parse with them
\* has run to its end; they have cells where a shift met a reduce with no
\* precedence declared and a cell where the reduces by expr -> IDENTIFIER and
\* declarator -> IDENTIFIER met, each left with one entry and logged.
C15_Witness ==
  /\ grammar.name = "DeclExpr"
  /\ ppc = "done"
  /\ \E c \in ShiftReduceCells :
       ~PrecedenceDecides(c) /\ Logged(c)
       /\ table.action[c[1]][c[2]] = ShiftsOf(table.entries[c[1]][c[2]])
  /\ \E c \in ReduceReduceCells :
       /\ { Prod(grammar, p).rhs : p \in Reduces(table.entries[c[1]][c[2]]) }
            = { <<"IDENTIFIER">> }
       /\ Cardinality(Reduces(table.entries[c[1]][c[2]])) = 2
       /\ table.action[c[1]][c[2]] = {Reduce(CellReduce(c))}
       /\ Prod(grammar, CellReduce(c)).name = "expr"
       /\ Logged(c)

\* The production of that name and right-hand side.
ProdNamed(name, rhs) ==
  CHOOSE p \in ProdNumbers(grammar) : Prod(grammar, p).name = name /\ Prod(grammar, p).rhs = rhs

\* C16 as stated: for every completed item A -> alpha . (A not the added
\* start symbol) of a state and every terminal a of its lookahead set, that
\* is, wherever reduce(p) was entered, ACTION[S, a] is defined and is the
\* reduce by p or a shift.
C16_LookaheadCellIsReduceOrShift ==
  \A c \in Cells : \A p \in Reduces(table.entries[c[1]][c[2]]) :
    \/ table.action[c[1]][c[2]] = {Reduce(p)}
    \/ /\ table.action[c[1]][c[2]] # {}
       /\ table.action[c[1]][c[2]] = ShiftsOf(table.entries[c[1]][c[2]])

\* C16 amended: wherever reduce(p) was entered the cell holds the reduce by p,
\* or the reduce by a production declared before p that was entered at the
\* same cell, or the shift entered there, or nothing when a nonassoc terminal
\* ties with the reduce production.  In DeclExprParser the cell where
\* declarator -> IDENTIFIER meets expr -> IDENTIFIER holds the reduce by
\* expr -> IDENTIFIER.
C16_LookaheadCellIsResolved ==
  /\ \A c \in Cells : \A p \in Reduces(table.entries[c[1]][c[2]]) :
       \/ table.action[c[1]][c[2]] = {Reduce(p)}
       \/ \E q \in Reduces(table.entries[c[1]][c[2]]) :
            q < p /\ table.action[c[1]][c[2]] = {Reduce(q)}
       \/ /\ table.action[c[1]][c[2]] # {}
          /\ table.action[c[1]][c[2]] = ShiftsOf(table.entries[c[1]][c[2]])
       \/ /\ table.action[c[1]][c[2]] = {}
          /\ c \in ShiftReduceCells
          /\ NonassocTie(c)
  /\ grammar.name = "DeclExpr" =>
       \A c \in Cells :
         { Reduce(ProdNamed("expr", <<"IDENTIFIER">>)),
           Reduce(ProdNamed("declarator", <<"IDENTIFIER">>)) }
             \subseteq table.entries[c[1]][c[2]]
           => table.action[c[1]][c[2]] = {Reduce(ProdNamed("expr", <<"IDENTIFIER">>))}

\* C16 witness: with the tables of DeclExprParser a parse has reduced by
\* expr -> IDENTIFIER; the tables have a cell in the lookahead set of
\* declarator -> IDENTIFIER that holds the reduce by expr -> IDENTIFIER, a
\* cell in the lookahead set of a completed item that holds a shift, and a
\* cell that holds the reduce of its only completed item.
C16_Witness ==
  /\ grammar.name = "DeclExpr"
  /\ plast.op = "reduce"
  /\ plast.act = {Reduce(ProdNamed("expr", <<"IDENTIFIER">>))}
  /\ \E c \in Cells :
       /\ Reduce(ProdNamed("declarator", <<"IDENTIFIER">>)) \in table.entries[c[1]][c[2]]
       /\ table.action[c[1]][c[2]] = {Reduce(ProdNamed("expr", <<"IDENTIFIER">>))}
  /\ \E c \in Cells :
       /\ Reduces(table.entries[c[1]][c[2]]) # {}
       /\ table.action[c[1]][c[2]] = ShiftsOf(table.entries[c[1]][c[2]])
       /\ table.action[c[1]][c[2]] # {}
  /\ \E c \in Cells :
       /\ Cardinality(table.entries[c[1]][c[2]]) = 1
       /\ table.action[c[1]][c[2]] = table.entries[c[1]][c[2]]
       /\ Reduces(table.entries[c[1]][c[2]]) # {}

\* The grammar has no production with error in its right-hand side.
NoErrorProductions ==
  \A p \in ProdNumbers(grammar) : "error" \notin Range(Prod(grammar, p).rhs)

\* A syntax error is met: the table has no entry for the lookahead and no
\* error is being recovered from.
SyntaxError == ppc = "parse" /\ Act = {} /\ errorcount = 0

\* One step of a parse reports a syntax error it meets to the hook, once and
\* with the offending token, and does not end the parse unless the input has
\* ended; no other step calls the hook.
ReportsOnce ==
  IF SyntaxError
  THEN /\ HookCalls' = Append(HookCalls, IF LA.type = EndMarker THEN NoToken ELSE LA)
       /\ LA.type # EndMarker => ppc' = "parse"
  ELSE HookCalls' = HookCalls

\* C17: with a grammar that has no error productions, a syntax error calls the
\* error hook exactly once, with the offending token, the first call of a
\* parse being for the first token without a table entry; the parse then goes
\* on and returns only when the whole input is read.  With the calculator
\* grammars a 123 4 + 5 returns 9 after one call of the hook, with the token
\* NUMBER 123.
C17_HookOnceThenResume ==
  /\ [][NoErrorProductions => ReportsOnce]_vars
  /\ [](NoErrorProductions =>
          /\ HookCalls = << >> => plast.op \in {"start", "shift", "reduce", "accept"}
          /\ ppc = "done" => taken = Len(toks) /\ lookaheadstack = << >>
          /\ (ppc = "done" /\ grammar.name \in {"Calc", "Ebnf"} /\ toks = ErrorInput) =>
               /\ result = IntV(9)
               /\ errors = << Num(123) >>)

\* C17 witness: CalcParser has parsed a 123 4 + 5 to its end; the hook was
\* called once with NUMBER 123, the start state was all that was left on the
\* stack when 123 was dropped, and the result is 9.
C17_Witness ==
  /\ ppc = "done"
  /\ grammar.name = "Calc"
  /\ NoErrorProductions
  /\ toks = ErrorInput
  /\ HookCalls = << Num(123) >>
  /\ result = IntV(9)
  /\ plast.op = "accept"

LastProd == Prod(grammar, (CHOOSE e \in plast.act : TRUE).arg)

\* P.name is the value of the rhs symbol at place k when the name occurs once,
\* and P.name<j> when it is occurrence j, counted from 0, of several.
NamedRight(rhs, P, k) ==
  LET j == Cardinality({ i \in 1..(k - 1) : rhs[i] = rhs[k] })
      n == Cardinality({ i \in DOMAIN rhs : rhs[i] = rhs[k] })
  IN  IF n = 1 THEN HasAttr(P, rhs[k]) /\ PAttr(P, rhs[k]) = P.values[k]
      ELSE /\ HasAttr(P, rhs[k] \o ToString(j))
           /\ PAttr(P, rhs[k] \o ToString(j)) = P.values[k]
           /\ ~HasAttr(P, rhs[k])

EbnfAccepted ==
  /\ grammar.name = "Ebnf"
  /\ ppc = "done"
  /\ plast.op = "accept"
  /\ HookCalls = << >>

Commas == Cardinality({ i \in DOMAIN toks : toks[i].type = "COMMA" })

\* The operators a repetition of the EBNF calculator accepts at its first
\* place.
Accepted(func) ==
  IF func = "fold_term" THEN {"+", "-"}
  ELSE IF func = "fold_factor" THEN {"*", "/"}
  ELSE {","}

Repeated(func) ==
  IF func = "fold_term" THEN "term1" ELSE IF func = "fold_factor" THEN "factor1" ELSE "expr1"

\* C20: ID "(" [ arglist ] ")" accepts a call with and without arguments, and
\* the action reads None for arglist when there is none; in a rule with a
\* repetition of two symbols the action reads a list with one pair per
\* occurrence, in input order, whose first place is of one of the kinds A|B,
\* and under the name of the second symbol the list of its values.  a() gives
\* ('a', None), a(2+3) gives ('a', [5]) and a(2+3, 4+5) gives ('a', [5, 9]).
C20_OptionalAndRepeated ==
  /\ (EbnfAccepted /\ result.t = "tuple") =>
       IF Len(toks) = 3 THEN result.items[2] = NoneV
       ELSE /\ result.items[2].t = "list"
            /\ Len(result.items[2].items) = Commas + 1
  /\ (grammar.name = "Ebnf" /\ plast.op = "reduce"
        /\ LastProd.func \in {"fold_term", "fold_factor", "arglist"}) =>
       /\ PIndex(plast.p, 1).t = "list"
       /\ \A i \in DOMAIN PIndex(plast.p, 1).items :
            /\ PIndex(plast.p, 1).items[i].t = "tuple"
            /\ Len(PIndex(plast.p, 1).items[i].items) = 2
            /\ PIndex(plast.p, 1).items[i].items[1].s \in Accepted(LastProd.func)
       /\ PAttr(plast.p, Repeated(LastProd.func))
            = ListV([i \in DOMAIN PIndex(plast.p, 1).items |->
                       PIndex(plast.p, 1).items[i].items[2]])
  /\ (grammar.name = "Ebnf" /\ plast.op = "reduce" /\ toks = SumDiffInput
        /\ LastProd.func = "fold_term") =>
       PIndex(plast.p, 1) = ListV(<< TupleV(<< StrV("+"), IntV(2) >>),
                                     TupleV(<< StrV("-"), IntV(3) >>) >>)
  /\ (ppc = "done" /\ grammar.name = "Ebnf" /\ toks = CallInput(<< >>)) =>
       EbnfAccepted /\ result = TupleV(<< StrV("a"), NoneV >>)
  /\ (ppc = "done" /\ grammar.name = "Ebnf" /\ toks = CallInput(OneArg)) =>
       EbnfAccepted /\ result = TupleV(<< StrV("a"), ListV(<< IntV(5) >>) >>)
  /\ (ppc = "done" /\ grammar.name = "Ebnf" /\ toks = CallInput(TwoArgs)) =>
       EbnfAccepted /\ result = TupleV(<< StrV("a"), ListV(<< IntV(5), IntV(9) >>) >>)

\* C20 witness: the EBNF calculator has accepted a(2+3, 4+5) with the value
\* ('a', [5, 9]): the optional arglist is there and its repetition has run
\* once.
C20_Witness ==
  /\ EbnfAccepted
  /\ toks = CallInput(TwoArgs)
  /\ result = TupleV(<< StrV("a"), ListV(<< IntV(5), IntV(9) >>) >>)

\* parse has returned by accepting.
ParseAccepted == ppc = "done" /\ plast.op = "accept"

\* C21: when parse returns by accepting, the stack holds the start state and
\* above it one entry, the start symbol with the value parse returns; the
\* lookahead is the end marker and every token of the input has been read.
\* CalcParser returns 47 for 3 + 4 * (5 + 6).
C21_AcceptLeavesOneValue ==
  /\ ParseAccepted =>
       /\ Len(statestack) = 2
       /\ statestack[1] = 0
       /\ symstack = << EndSymbol, Symbol(Prod(grammar, 0).rhs[1], result) >>
       /\ lookahead = EndSymbol
       /\ taken = Len(toks)
       /\ lookaheadstack = << >>
  /\ (ppc = "done" /\ grammar.name = "Calc" /\ toks = ExprInput) =>
       ParseAccepted /\ result = IntV(47)

\* C21 witness: CalcParser has accepted 3 + 4 * (5 + 6): statement with the
\* value 47 is alone above the start state and all nine tokens are read.
C21_Witness ==
  /\ ParseAccepted
  /\ grammar.name = "Calc"
  /\ toks = ExprInput
  /\ symstack = << EndSymbol, Symbol("statement", IntV(47)) >>
  /\ Len(statestack) = 2
  /\ taken = 9
  /\ lookahead = EndSymbol

(***************************************************************************)
(* Claims about the build of a lexer class                                 *)
(***************************************************************************)
\* The kinds the statements  NAME[text] = KIND  of the class body name.
RemapTargets(c) == { c.body[k].to : k \in { j \in DOMAIN c.body : c.body[j].op = "remap" } }

\* C22: a class whose body remaps a keyword to a kind that is not in tokens is
\* rejected by the build with LexerBuildError, whose message names the kinds
\* that are missing, and no text is ever scanned with it.
C22_UndeclaredRemapTargetRejected ==
  ~(RemapTargets(cls) \subseteq cls.tokens) =>
    /\ pc = "rejected"
    /\ build(cls).error = "LexerBuildError"
    /\ build(cls).missing = RemapTargets(cls) \ cls.tokens
    /\ out = << >>
    /\ last.op = "start"

\* C22 witness: the class that remaps if to IF without IF in tokens is
\* rejected, and the error names IF.
C22_Witness ==
  /\ cls.name = "BadRemapLexer"
  /\ pc = "rejected"
  /\ "IF" \in RemapTargets(cls) /\ "IF" \notin cls.tokens
  /\ build(cls).error = "LexerBuildError"
  /\ build(cls).missing = {"IF"}

\* The names a class body assigns a string pattern to more than once.
DuplicateNames(c) ==
  { c.body[i].key : i \in { k \in DOMAIN c.body :
      /\ c.body[k].op = "assign" /\ c.body[k].val.type = "str"
      /\ \E j \in 1..(k - 1) : /\ c.body[j].op = "assign"
                               /\ c.body[j].key = c.body[k].key
                               /\ c.body[j].val.type = "str" } }

\* C23: a class body that gives one rule name two string patterns is rejected
\* by the build, so no text is scanned and no token is produced with it.
C23_DuplicateNameRejected ==
  DuplicateNames(cls) # {} => pc = "rejected" /\ build(cls).error # "" /\ out = << >>

(***************************************************************************)
(* Claims about the dispatch of token functions                            *)
(***************************************************************************)
\* text[tok.index : tok.index + len(tok.value)]
Matched(tok) == SubSeq(text, tok.index + 1, tok.index + Len(tok.value))

\* C24: the function tokenize calls on a match is looked up under the kind the
\* token has after the keyword remapping; when the matched text is remapped
\* from rule R to another kind K, R's function is not called on it and the
\* function called, if any, is the one defined under K; hence with ID['if'] = IF
\* and an ID function that upper-cases the value, identifiers are yielded in
\* upper case and the keyword is yielded as it was written.
C24_DispatchKeyedByRemappedKind ==
  /\ (last.op = "match" /\ last.type # last.group) =>
       /\ last.call.fn # last.group
       /\ last.call.fn = (IF last.type \in DOMAIN lex.token_funcs THEN last.type ELSE "")
       /\ last.call = NoCall => last.ret.value = last.value
  /\ cls.name = "KeywordLexer" =>
       \A i \in DOMAIN out :
         /\ out[i].type = "ID" => out[i].value = upper(Matched(out[i]))
         /\ out[i].type = "IF" => out[i].value = <<"i", "f">>
  /\ cls.name = "KindLexer" =>
       \A i \in DOMAIN out :
         /\ out[i].type = "ID" => out[i].value = Matched(out[i])
         /\ out[i].type = "IF" => out[i].value = <<"I", "F">>

\* C24 witness: fi if f is yielded as ID 'FI', IF 'if', ID 'F', with the ID
\* function called on the two identifiers only.
C24_Witness ==
  /\ cls.name = "KeywordLexer"
  /\ text = <<"f", "i", " ", "i", "f", " ", "f">>
  /\ pc = "done"
  /\ [i \in DOMAIN out |-> << out[i].type, out[i].value >>]
       = << <<"ID", <<"F", "I">> >>, <<"IF", <<"i", "f">> >>, <<"ID", <<"F">> >> >>
  /\ [i \in DOMAIN calls |-> << calls[i].fn, calls[i].at >>] = << <<"ID", 0>>, <<"ID", 6>> >>

(***************************************************************************)
(* Two tokenize iterators of one lexer instance                            *)
(***************************************************************************)
\* Longest text handed to each of the two iterators.
PairLen == 2

PairTexts(S) == UNION { [1..n -> S] : n \in 0..PairLen }

\* The classes two iterators are made with: one with ignored characters and
\* a newline function that counts lines, one with a literal, and each error
\* method that advances.
PairClasses ==
  { [d EXCEPT !.error = h] : d \in {SkipLexer, LineLexer}, h \in {"default", "skip", "skip_return"} }

PairChars(name) ==
  IF name = "SkipLexer" THEN {"1", "\n", ":", " "} ELSE {"1", "(", ":"}

\* A generator object: its arguments and locals, its output so far, and
\* where it stands: "new" (created, body not entered), "run" (inside the
\* loop, or suspended at the yield of a match or a literal), "error_yield"
\* (suspended at the yield of the error branch, ahead of
\* index = self.index; lineno = self.lineno), "done", "raised".
Generator(t) ==
  [text |-> t, index |-> StartIndex, lineno |-> StartLineno, pc |-> "new", out |-> << >>]

\* lexer = cls(); a = lexer.tokenize(ta); b = lexer.tokenize(tb)
PairInit ==
  /\ ParserIdle
  /\ BuildIdle
  /\ cls \in PairClasses
  /\ lex = set_state(cls)
  /\ text = << >> /\ index = 0 /\ lineno = 0
  /\ self_text = << >>
  /\ self_index = Unset
  /\ self_lineno = Unset
  /\ pc = "pair"
  /\ out = << >> /\ calls = << >> /\ last = << >> /\ raised = << >>
  /\ state_stack = NoStack
  /\ state_log = << >>
  /\ gens \in [1..2 -> { Generator(t) : t \in PairTexts(PairChars(cls.name)) }]
  /\ running = 0

\* next(gens[i]) is called only while no generator is executing; a
\* generator that is executing runs on until it yields, returns or raises.
CanRun(i, at) == running \in {0, i} /\ gens[i].pc = at

PairFrame == UNCHANGED <<cls, lex, text, index, lineno, pc, out, calls, last, raised, statevars>>
               /\ UNCHANGED <<parvars, buildvars>>

\* The first next(): self.__set_state = _set_state; _set_state(type(self));
\* self.text = text
PairStart(i) ==
  /\ CanRun(i, "new")
  /\ gens' = [gens EXCEPT ![i].pc = "run"]
  /\ running' = i
  /\ self_text' = gens[i].text
  /\ UNCHANGED <<self_index, self_lineno>>
  /\ PairFrame

PairIgnore(i) ==
  /\ CanRun(i, "run")
  /\ Branch(lex, gens[i].text, gens[i].index) = "ignore"
  /\ gens' = [gens EXCEPT ![i].index = @ + 1]
  /\ running' = i
  /\ UNCHANGED <<self_text, self_index, self_lineno>>
  /\ PairFrame

PairEnd(i) ==
  /\ CanRun(i, "run")
  /\ Branch(lex, gens[i].text, gens[i].index) = "end"
  /\ gens' = [gens EXCEPT ![i].pc = "done"]
  /\ running' = 0
  /\ self_text' = Finally(gens[i].text, gens[i].index, gens[i].lineno).text
  /\ self_index' = Finally(gens[i].text, gens[i].index, gens[i].lineno).index
  /\ self_lineno' = Finally(gens[i].text, gens[i].index, gens[i].lineno).lineno
  /\ PairFrame

PairMatch(i) ==
  /\ CanRun(i, "run")
  /\ Branch(lex, gens[i].text, gens[i].index) = "match"
  /\ LET g == gens[i]
         s == MatchStep(lex, g.text, g.index, g.lineno, MasterMatch(lex.master_re, g.text, g.index))
     IN  /\ gens' = [gens EXCEPT ![i].index = s.index, ![i].lineno = s.lineno,
                                 ![i].out = IF s.yields THEN Append(@, s.ret) ELSE @]
         /\ running' = IF s.yields THEN 0 ELSE i
         /\ self_index' = IF s.fn # "" THEN s.index ELSE self_index
         /\ self_lineno' = IF s.fn # "" THEN s.lineno ELSE self_lineno
  /\ UNCHANGED self_text
  /\ PairFrame

PairLiteral(i) ==
  /\ CanRun(i, "run")
  /\ Branch(lex, gens[i].text, gens[i].index) = "literal"
  /\ LET g == gens[i]
     IN  gens' = [gens EXCEPT ![i].index = @ + 1,
                              ![i].out = Append(@, LiteralToken(NewToken(g.lineno, g.index), g.text, g.index))]
  /\ running' = 0
  /\ UNCHANGED <<self_text, self_index, self_lineno>>
  /\ PairFrame

\* self.index = index; self.lineno = lineno; tok = self.error(tok);
\* if tok is not None: yield tok   -- the generator is suspended here, and
\* index = self.index; lineno = self.lineno  run when it is resumed.
PairError(i) ==
  /\ CanRun(i, "run")
  /\ Branch(lex, gens[i].text, gens[i].index) = "error"
  /\ cls.error # "default"
  /\ LET g == gens[i]
         r == ErrorBody(cls.error, ErrorToken(NewToken(g.lineno, g.index), g.text, g.index),
                        g.index, g.lineno)
     IN  /\ self_index' = r.index
         /\ self_lineno' = r.lineno
         /\ gens' = [gens EXCEPT ![i].pc = "error_yield",
                                 ![i].out = IF r.ret # None THEN Append(@, r.ret) ELSE @]
         /\ running' = IF r.ret # None THEN 0 ELSE i
  /\ UNCHANGED self_text
  /\ PairFrame

\* index = self.index; lineno = self.lineno  after the error method (and
\* after the yield of the token it returned, when it returned one).
PairResume(i) ==
  /\ CanRun(i, "error_yield")
  /\ gens' = [gens EXCEPT ![i].pc = "run", ![i].index = self_index, ![i].lineno = self_lineno]
  /\ running' = i
  /\ UNCHANGED <<self_text, self_index, self_lineno>>
  /\ PairFrame

\* The default error method raises LexError, which leaves the generator
\* through the finally clause.
PairRaise(i) ==
  /\ CanRun(i, "run")
  /\ Branch(lex, gens[i].text, gens[i].index) = "error"
  /\ cls.error = "default"
  /\ gens' = [gens EXCEPT ![i].pc = "raised"]
  /\ running' = 0
  /\ self_text' = Finally(gens[i].text, gens[i].index, gens[i].lineno).text
  /\ self_index' = Finally(gens[i].text, gens[i].index, gens[i].lineno).index
  /\ self_lineno' = Finally(gens[i].text, gens[i].index, gens[i].lineno).lineno
  /\ PairFrame

PairNext ==
  \E i \in 1..2 :
    \/ PairStart(i)
    \/ PairIgnore(i)
    \/ PairMatch(i)
    \/ PairLiteral(i)
    \/ PairError(i)
    \/ PairResume(i)
    \/ PairRaise(i)
    \/ PairEnd(i)

PairSpec == PairInit /\ [][PairNext]_vars

\* The tokens lexer.tokenize(t) yields from position idx and line ln on when
\* its iterator is the only one (fuel: passes of the loop left).
RECURSIVE Scan(_, _, _, _, _, _)
Scan(lx, handler, t, idx, ln, fuel) ==
  LET b == Branch(lx, t, idx)
  IN  IF fuel = 0 \/ b = "end" THEN << >>
      ELSE IF b = "ignore" THEN Scan(lx, handler, t, idx + 1, ln, fuel - 1)
      ELSE IF b = "match"
      THEN LET s == MatchStep(lx, t, idx, ln, MasterMatch(lx.master_re, t, idx))
           IN  (IF s.yields THEN << s.ret >> ELSE << >>)
                 \o Scan(lx, handler, t, s.index, s.lineno, fuel - 1)
      ELSE IF b = "literal"
      THEN << LiteralToken(NewToken(ln, idx), t, idx) >> \o Scan(lx, handler, t, idx + 1, ln, fuel - 1)
      ELSE IF handler = "default" THEN << >>
      ELSE LET s == ErrorStep(handler, ErrorToken(NewToken(ln, idx), t, idx), idx, ln)
           IN  (IF s.yields THEN << s.ret >> ELSE << >>)
                 \o Scan(lx, handler, t, s.index, s.lineno, fuel - 1)

\* list(lexer.tokenize(t)) with nothing else using the lexer (a LexError cuts
\* the list where it is raised).
Alone(c, t) == Scan(set_state(c), c.error, t, StartIndex, StartLineno, Len(t) + 1)

IsPrefix(a, b) == Len(a) <= Len(b) /\ a = SubSeq(b, 1, Len(a))

\* C25: each of two iterators of one lexer, advanced in any interleaving,
\* yields the tokens (kind, value, index, lineno) it yields when run alone:
\* what it has yielded is always a prefix of that sequence, and all of it once
\* the iterator has stopped.
C25_InterleavedAsAlone ==
  pc = "pair" =>
    \A i \in 1..2 :
      /\ IsPrefix(gens[i].out, Alone(cls, gens[i].text))
      /\ gens[i].pc \in {"done", "raised"} => gens[i].out = Alone(cls, gens[i].text)

(***************************************************************************)
(* Claims about the attributes tokenize leaves on the lexer                *)
(***************************************************************************)
\* No function and no error method left self.index past the end of the text.
AdvancesStayInText == \A k \in DOMAIN calls : calls[k].index_after <= Len(text)

\* C26: when the iterator has stopped, at the end of the input or by an
\* exception, lexer.text, lexer.index and lexer.lineno are the text and the
\* position the scan had reached; after a scan that ran to the end index is
\* the length of the text when no call moved it past the end, and lineno is
\* the final line number: with the newline function of the ignore scenario,
\* the starting line plus the newlines of the text, 6 for the scenario's text.
C26_FinalStateOnExit ==
  /\ pc \in {"done", "raised"} =>
       /\ self_text = text
       /\ self_index = index
       /\ self_lineno = lineno
  /\ pc = "raised" => self_index = raised.error_index /\ self_index = last.at
  /\ (pc = "done" /\ AdvancesStayInText) => self_index = Len(text)
  /\ (pc = "done" /\ cls.name = "LineLexer") => self_lineno = StartLineno + count(text, "\n")
  /\ (pc = "done" /\ cls.name = "LineLexer" /\ text \in Scenarios("LineLexer")) =>
       /\ self_lineno = 6
       /\ [i \in DOMAIN out |-> out[i].lineno] = << 4, 5 >>

\* C26 witness: the scan of the ignore scenario has run to the end, with
\* lineno 6 and index the length of the text left on the lexer.
C26_Witness ==
  /\ cls.name = "LineLexer"
  /\ text \in Scenarios("LineLexer")
  /\ pc = "done"
  /\ last.op = "end"
  /\ self_lineno = 6
  /\ self_index = 9 /\ Len(text) = 9
  /\ Len(calls) = 4

(***************************************************************************)
(* Claims about lexer states                                               *)
(***************************************************************************)
\* The classes the lexer had at the pushes of the log h that no later pop of
\* h has taken back, in the order of the pushes.
RECURSIVE Unmatched(_)
Unmatched(h) ==
  IF h = << >> THEN << >>
  ELSE LET e == h[Len(h)]
           r == Unmatched(SubSeq(h, 1, Len(h) - 1))
       IN  IF e.error # "" THEN r
           ELSE IF e.op = "push_state" THEN Append(r, e.from)
           ELSE IF e.op = "pop_state" THEN SubSeq(r, 1, Len(r) - 1)
           ELSE r

StackNames == [i \in DOMAIN state_stack.items |-> state_stack.items[i].name]

\* The class of the lexer according to the log, given its class now when the
\* log is empty.
Active == IF state_log = << >> THEN cls.name ELSE state_log[Len(state_log)].to

\* C27: the state stack is last in, first out.  The stack holds the classes
\* the lexer had at each push that was not popped, in push order; a pop
\* returns the lexer to the class it had at the push it takes back, so
\* push_state(B) followed by pop_state() leaves class A and the stack as they
\* were; a pop_state with nothing pushed raises an error and leaves the class
\* and the stack unchanged.
C27_StateStackIsLifo ==
  /\ StackNames = Unmatched(state_log)
  /\ cls.name = Active
  /\ \A k \in DOMAIN state_log :
       LET e      == state_log[k]
           before_ == Unmatched(SubSeq(state_log, 1, k - 1))
       IN  /\ e.op = "push_state" => e.error = ""
           /\ e.op = "pop_state" =>
                /\ (e.error # "") <=> (before_ = << >>)
                /\ e.error # "" =>
                     /\ e.to = e.from
                     /\ k = Len(state_log)
                     /\ pc = "raised"
                     /\ raised.text = << e.error >>
                /\ e.error = "" =>
                     /\ e.to = before_[Len(before_)]
                     /\ (k > 1 /\ state_log[k - 1].op = "push_state") =>
                          /\ e.to = state_log[k - 1].from
                          /\ Unmatched(SubSeq(state_log, 1, k))
                               = Unmatched(SubSeq(state_log, 1, k - 2))

\* C27 witness: MainLexer pushed TagLexer, TagLexer pushed MainLexer and
\* MainLexer popped: the lexer is back in TagLexer with MainLexer on the stack.
C27_Witness ==
  /\ text = <<"<", "<", ">">>
  /\ pc = "done"
  /\ [k \in DOMAIN state_log |-> << state_log[k].op, state_log[k].from, state_log[k].to >>]
       = << <<"push_state", "MainLexer", "TagLexer">>,
            <<"push_state", "TagLexer", "MainLexer">>,
            <<"pop_state", "MainLexer", "TagLexer">> >>
  /\ cls.name = "TagLexer"
  /\ StackNames = << "MainLexer" >>

\* The functions of class c whose body calls begin, push_state or pop_state.
StateFunctions(c) ==
  { TokName(c.body[k].key) : k \in { j \in DOMAIN c.body :
      c.body[j].op = "assign" /\ c.body[j].val.body \in DOMAIN StateCalls } }

\* The last pass called a function that changed (or tried to change) the state.
Switched == last.op = "match" /\ last.call # NoCall /\ last.call.fn \in StateFunctions(cls)

\* The class the lexer had when the last pass began.
ClassBefore ==
  IF Switched
  THEN [StateClass(state_log[Len(state_log)].from) EXCEPT !.error = cls.error]
  ELSE cls

\* C28: a function that calls begin, push_state or pop_state while tokenize
\* runs leaves the scan where the match ended, on the same line, and with the
\* token of the match yielded; from then on the ignore characters, the master
\* matcher, the literals, the functions, the ignored kinds and the remap table
\* are those of the class entered: each pass ignores, matches, remaps,
\* dispatches, drops and takes literals as the class the lexer had when the
\* pass began declares.
C28_BeginKeepsPosition ==
  /\ lex = set_state(cls)
  /\ (Switched /\ pc # "raised") =>
       /\ index = last.at + Len(last.value)
       /\ lineno = last.call.lineno
       /\ last.yielded /\ LastOut.index = last.at /\ LastOut.value = last.value
       /\ cls.name = state_log[Len(state_log)].to
  /\ last.op = "ignore" => CharAt(text, last.at) \in ClassBefore.ignore
  /\ last.op = "literal" =>
       /\ CharAt(text, last.at) \in ClassBefore.literals
       /\ ~SomeRuleMatches(set_state(ClassBefore).master_re, text, last.at)
  /\ last.op = "error" =>
       /\ CharAt(text, last.at) \notin ClassBefore.literals \cup ClassBefore.ignore
       /\ ~SomeRuleMatches(set_state(ClassBefore).master_re, text, last.at)
  /\ last.op = "match" =>
       /\ DeclStmts(ClassBefore, last.group) # {}
       /\ CharAt(text, last.at) \notin ClassBefore.ignore
       /\ last.type = ExpectedKind(ClassBefore, last.group, last.value)
       /\ (last.call = NoCall) <=> ~DeclaredFunc(ClassBefore, last.type)
       /\ DeclaredIgnored(ClassBefore, last.type) => ~last.yielded

\* C28 witness: MainLexer's function began TagLexer at the colon, and the
\* next pass matched if with TagLexer's ID rule and remapped it to IF, at the
\* position after the colon.
C28_Witness ==
  /\ text = <<":", "i", "f">>
  /\ state_log = << [op |-> "begin", from |-> "MainLexer", to |-> "TagLexer", error |-> ""] >>
  /\ cls.name = "TagLexer"
  /\ last.op = "match" /\ last.at = 1 /\ last.group = "ID" /\ last.type = "IF"
  /\ [i \in DOMAIN out |-> << out[i].type, out[i].index >>] = << <<"SWITCH", 0>>, <<"IF", 1>> >>

(***************************************************************************)
(* Claims about subclasses                                                 *)
(***************************************************************************)
\* The names of the rules of class c, in the order of _collect_rules.
RuleOrder(c) == [i \in DOMAIN collect_rules(c).rules |-> collect_rules(c).rules[i].key]

Pos(order, key) == CHOOSE i \in DOMAIN order : order[i] = key

\* The rules the body attrs declares that are not among the names old: all
\* of them, and those declared with before.
NewRules(attrs, old) == Keys(attrs) \ Range(old)

BeforeRules(attrs, old) ==
  { key \in NewRules(attrs, old) : GetItem(attrs, key).before \in Range(old) }

\* C30: in a subclass the rules of the base keep their order, a rule the
\* subclass redefines standing where the base had it with the subclass's
\* pattern; the new rules follow in the order of their declaration, except
\* that a rule declared with before(T, pattern) stands immediately ahead of T;
\* so PLUSPLUS declared before PLUS matches ++ as one token.
C30_SubclassRuleOrder ==
  /\ (cls.bases # << >> /\ last.op = "start") =>
       LET rules == collect_rules(cls).rules
           inherited == collect_rules(cls.bases[1]).rules
           order == [i \in DOMAIN rules |-> rules[i].key]
           old   == [i \in DOMAIN inherited |-> inherited[i].key]
           attrs == Attributes(cls.body, Len(cls.body))
           new   == NewRules(attrs, old) \ BeforeRules(attrs, old)
       IN  /\ SelectSeq(order, LAMBDA key : key \in Range(old)) = old
           /\ \A i \in DOMAIN order :
                rules[i].val = IF order[i] \in Keys(attrs) THEN GetItem(attrs, order[i])
                               ELSE inherited[Pos(old, order[i])].val
           /\ SelectSeq(order, LAMBDA key : key \in new)
                = SelectSeq([i \in DOMAIN attrs |-> attrs[i].key], LAMBDA key : key \in new)
           /\ \A key \in new : \A k \in Range(old) : Pos(order, k) < Pos(order, key)
           /\ \A key \in BeforeRules(attrs, old) :
                Pos(order, key) + 1 = Pos(order, GetItem(attrs, key).before)
  /\ cls.bases # << >> =>
       \A i \in DOMAIN out :
         (out[i].type = "PLUS" /\ InText(text, out[i].index + 1))
           => CharAt(text, out[i].index + 1) # "+"

\* C30 witness: SubOpsLexer has the rules PLUSPLUS, PLUS, ASSIGN, LE, LT,
\* COLON, ignore_ws in this order, and ++ followed by + was scanned as
\* PLUSPLUS, PLUS.
C30_Witness ==
  /\ cls.name = "SubOpsLexer"
  /\ RuleOrder(cls) = << "PLUSPLUS", "PLUS", "ASSIGN", "LE", "LT", "COLON", "ignore_ws" >>
  /\ text = << "+", "+", "+" >>
  /\ pc = "done"
  /\ [i \in DOMAIN out |-> << out[i].type, out[i].value >>]
       = << <<"PLUSPLUS", <<"+", "+">> >>, <<"PLUS", <<"+">> >> >>

(***************************************************************************)
(* Class statements and the objects the class attributes refer to          *)
(***************************************************************************)
\* A subclass of KeywordLexer that defines ID again with another keyword, a
\* function for NUMBER and an ignored rule.
SubKeywordLexer ==
  Subclass("SubKeywordLexer", KeywordLexer, KeywordLexer.tokens \cup {"FI"},
           << Assign("ID", TokenStr(<< <<One(Letters), Star(Letters \cup Digits)>> >>)),
              Remap("ID", <<"f", "i">>, "FI"),
              Def("NUMBER", << <<Plus(Digits)>> >>, "upper"),
              Def("ignore_ws", << <<Plus({":"})>> >>, "count_newlines") >>)

\* A subclass of LineLexer whose last rule matches the empty input: the
\* build raises PatternError after it has filed the rules ahead of it.
EmptySubLexer ==
  Subclass("EmptySubLexer", LineLexer, LineLexer.tokens \cup {"EMPTY"},
           << Def("ignore_ws", << <<Plus({":"})>> >>, "return_t"),
              Assign("EMPTY", TokenStr(<< <<Star(Digits)>> >>)) >>)

\* A subclass of a subclass.
SubSubOpsLexer ==
  Subclass("SubSubOpsLexer", SubOpsLexer, SubOpsLexer.tokens,
           << Def("PLUS", Lit(<<"+">>), "upper"),
              Def("ignore_comment", << <<One({"#"})>> >>, "return_t") >>)

\* The class statements executed, in any order that has a base ahead of its
\* subclasses.
BuildDeclarations ==
  {OpsLexer, SubOpsLexer, SubSubOpsLexer, KeywordLexer, SubKeywordLexer, LineLexer,
   EmptySubLexer}

Declaration(name) == CHOOSE d \in BuildDeclarations : d.name = name

BaseName(c) == IF c.bases = << >> THEN "Lexer" ELSE c.bases[1].name

\* class Lexer: _token_funcs = {}; _ignored_tokens = set(); _remapping = {}
BuildInit ==
  /\ LexerIdle
  /\ ParserIdle
  /\ PairIdle
  /\ heap = << EmptyDict, {}, EmptyDict >>
  /\ classes = ("Lexer" :> [token_funcs |-> 1, ignored_tokens |-> 2, remapping |-> 3,
                           master_re |-> << >>])
  /\ failed = {}

\* An assignment that binds the class attribute to the object it inherits.
Shared(h, id) == [heap |-> h, id |-> id]

\* set(obj) and dict(obj): a new object with the content of the object id.
Copy(h, id) == [heap |-> Append(h, h[id]), id |-> Len(h) + 1]

\* The attributes a class has, read through the objects it refers to.
ClassValues(h, attrs) ==
  [error |-> "", missing |-> {}, ignored_tokens |-> h[attrs.ignored_tokens],
   token_funcs |-> h[attrs.token_funcs], remapping |-> h[attrs.remapping],
   master_re |-> attrs.master_re]

\* class c(base): ..., that is LexerMeta.__new__ and cls._build(): the three
\* containers are copied, the copies are filled by the build, and the class
\* exists unless the build raised.
DefineClass(c) ==
  /\ c.name \notin DOMAIN classes \cup failed
  /\ BaseName(c) \in DOMAIN classes
  /\ LET inherited == classes[BaseName(c)]
         ig == Copy(heap, inherited.ignored_tokens)
         fn == Copy(ig.heap, inherited.token_funcs)
         rm == Copy(fn.heap, inherited.remapping)
         attrs == [ignored_tokens |-> ig.id, token_funcs |-> fn.id, remapping |-> rm.id,
                   master_re |-> inherited.master_re]
         b == BuildFrom(ClassValues(rm.heap, attrs), c)
     IN  /\ heap' = [rm.heap EXCEPT ![ig.id] = b.ignored_tokens,
                                    ![fn.id] = b.token_funcs,
                                    ![rm.id] = b.remapping]
         /\ classes' = IF b.error = ""
                       THEN (c.name :> [attrs EXCEPT !.master_re = b.master_re]) @@ classes
                       ELSE classes
         /\ failed' = IF b.error = "" THEN failed ELSE failed \cup {c.name}
  /\ UNCHANGED <<lexvars, parvars, pairvars>>

BuildNext == \E c \in BuildDeclarations : DefineClass(c)

BuildSpec == BuildInit /\ [][BuildNext]_vars

\* The four build-time attributes of a record of class attributes.
BuildState(v) ==
  [ignored_tokens |-> v.ignored_tokens, token_funcs |-> v.token_funcs,
   remapping |-> v.remapping, master_re |-> v.master_re]

\* The class name has a subclass that exists or whose statement raised.
HasSubclass(name) ==
  \E d \in BuildDeclarations : BaseName(d) = name /\ d.name \in DOMAIN classes \cup failed

\* C29: the class statement of a subclass, whether it builds or raises,
\* leaves the master matcher, the functions, the ignored kinds and the remap
\* table of every class that existed before it as they were built, those of
\* class Lexer included, so each class goes on scanning with the attributes
\* its own statement gave it.
C29_SubclassLeavesBase ==
  heap # << >> =>
    /\ BuildState(ClassValues(heap, classes["Lexer"])) = BuildState(LexerRoot)
    /\ \A name \in DOMAIN classes \ {"Lexer"} :
         /\ BuildState(ClassValues(heap, classes[name])) = BuildState(build(Declaration(name)))
         /\ [ignored_tokens |-> heap[classes[name].ignored_tokens],
             master_re |-> classes[name].master_re,
             ignore |-> Declaration(name).ignore,
             token_funcs |-> heap[classes[name].token_funcs],
             literals |-> Declaration(name).literals,
             remapping |-> heap[classes[name].remapping]] = set_state(Declaration(name))

\* C29 witness: KeywordLexer has a subclass with other functions, ignored
\* kinds and keywords, LineLexer has one whose build raised part-way, and both
\* bases hold what their own builds gave them.
C29_Witness ==
  /\ {"KeywordLexer", "SubKeywordLexer", "LineLexer"} \subseteq DOMAIN classes
  /\ "EmptySubLexer" \in failed
  /\ HasSubclass("KeywordLexer") /\ HasSubclass("LineLexer")
  /\ heap[classes["SubKeywordLexer"].ignored_tokens] = {"ws"}
  /\ heap[classes["KeywordLexer"].ignored_tokens] = {}
  /\ heap[classes["SubKeywordLexer"].remapping]["ID"] = (<<"f", "i">> :> "FI")
  /\ heap[classes["KeywordLexer"].remapping]["ID"] = (<<"i", "f">> :> "IF")
  /\ DOMAIN heap[classes["SubKeywordLexer"].token_funcs] = {"ID", "NUMBER", "ws"}
  /\ DOMAIN heap[classes["KeywordLexer"].token_funcs] = {"ID", "NUMBER"}
  /\ heap[classes["LineLexer"].ignored_tokens] = {"comment", "newline"}
====
